---------------------------- MODULE Spec2Model ----------------------------
(***************************************************************************)
(* A model of the MediaWiki RAG index builder (scripts/update_index.py,    *)
(* src/storage.py): the advisory lock, the build pipeline with its swap    *)
(* and rollback, and the change detection / chunk merge of a build.        *)
(*                                                                         *)
(* Specifications:                                                         *)
(*   SpecAcquire  one caller of Storage.acquire_lock, from any lock file   *)
(*   SpecLock     several build processes racing on one lock file          *)
(*   SpecBuild    one build process, run after run, with failing stages    *)
(*                and failing file-system operations                       *)
(*   SpecMerge    the data a build computes: change detection, chunk       *)
(*                merge, embeddings, the staged and published index        *)
(***************************************************************************)
EXTENDS Integers, Sequences, FiniteSets, TLC

(***************************************************************************)
(* Bounds of the model.                                                    *)
(***************************************************************************)
\* Number of build processes sharing the lock path.
NumProcs == 2
\* The clock runs from 0 to MaxTime.
MaxTime == 3
\* acquire_lock's timeout parameter is drawn from 0..MaxTimeout in SpecAcquire.
MaxTimeout == 2

\* main is run at most MaxRuns times in all.
MaxRuns == 2

\* The embedding matrix of a search has at most MaxRows rows.
MaxRows == 3

\* A page's content has at most MaxText characters.
MaxText == 5

\* chunk_text's chunk_size is at most MaxChunkSize.
MaxChunkSize == 3

\* chunk_text is called at most MaxCalls times on a page.
MaxCalls == 2

\* A saved chunk list has at most MaxChunks chunks.
MaxChunks == 2

\* The text of a saved chunk has at most MaxLine characters.
MaxLine == 1

\* The chat reads at most MaxTurns lines at its prompt.
MaxTurns == 2

\* fetch_all_pages is called with max_retries in 0..MaxRetries and backoff in
\* 0..MaxBackoff, on a wiki that answers in 1..MaxBatches batches of
\* BatchSize pages.
MaxRetries == 3

MaxBackoff == 2

MaxBatches == 2

BatchSize == 2

\* A model file has at most MaxBytes bytes; the server sends it a byte at a
\* time.
MaxBytes == 2

\* An index version searched through Storage has at most MaxIndexRows
\* embedding rows, and load_embeddings is called at most MaxLoads times.
MaxIndexRows == 2

MaxLoads == 2

\* The candidates handed to mmr_rerank.
MaxCands == 3

\* The passes of chunk_text's slicing loop that are followed: more than a
\* loop that advances can make on MaxText characters.
MaxPasses == 6

\* The wiki has the pages 1..NumTitles, each at a revision in 1..MaxRev.
NumTitles == 2
MaxRev == 2

\* The default of acquire_lock's timeout parameter (7200 s), in clock ticks.
DefaultTimeout == 2

Procs == 1..NumProcs
\* The owner of a lock record that none of the modelled processes wrote.
Foreign == NumProcs + 1

VARIABLES
    now,        \* the wall clock (time.time(), datetime.now())
    lockFile,   \* the file at lock_path: NoFile, EmptyFile or a lock record
    timeout,    \* acquire_lock's timeout parameter
    pc,         \* pc[p]: where process p is in main / acquire_lock / release_lock
    lockInfo,   \* lockInfo[p]: acquire_lock's local lock_info
    info,       \* info[p]: acquire_lock's local info
    fdValid,    \* fdValid[p]: the file p opened for writing is still the one at lock_path
    relCtx,     \* relCtx[p]: the call site of p's release_lock ("site", "fatal", or a direct "call")
    acqCall,    \* history: the lock file and the clock at p's acquire_lock call,
                \* and the clock at its age comparison
    outcome,    \* history: how p's current run of main ended
    staleTaken, \* history: some acquire_lock has overridden a stale record
    live,       \* the directory current/ (current_path)
    staging,    \* the directory staging/ (staging_path)
    archive,    \* the directory archive/ (archive_path) and its entries by name
    runs,       \* the number of runs of main started so far
    myRun,      \* myRun[p]: the number of p's run, which names the index it builds
    latest,     \* latest[p]: the rollback's local latest (an archive entry's name)
    preLive,    \* history: current/ when p's run started
    swapFault,  \* history: the step of p's swap that raised, or "none"
    rollbackFault, \* history: p's rollback raised
    stage,         \* where the build is between its fetch and its swap
    full_rebuild,  \* args.full_rebuild
    model_name,    \* config['models']['embedding']
    pages,         \* main's local pages: the fetched page list
    prev_state,    \* main's local prev_state
    new_state,     \* main's local new_state
    changed_pages, \* main's local changed_pages
    prev_chunks,   \* main's local prev_chunks
    all_chunks,    \* main's local all_chunks
    embeddings,    \* main's local embeddings
    encoded,       \* history: the texts the build passed to model.encode
    currentIndex,  \* the content of the index files in current/
    stagingIndex,  \* the content of the index files in staging/
    writeStep,     \* where the build is in its writes to staging/
    stagingFile,   \* stagingFile[f]: what the file named f in staging/ holds
    tmpFile,       \* tmpFile[f]: what the temporary file next to f holds
    preArchive,    \* history: archive/ when p's run started
    swapStep,      \* where a swap is between its file system calls
    chat,          \* where the chat process is: the command and its step
    net_info,      \* sync_local_cache's local net_info: the version read
    cache_info,    \* sync_local_cache's local cache_info: the version read
    cache,         \* cache[f]: the version of file f in the local cache, 0: none
    memory,        \* chat's locals chunks and embeddings: the versions loaded
    answered,       \* history: the in-memory pair the last query was answered from
    quietSync,     \* history: no step of a build since sync_local_cache began
    searchPc,   \* search_chunks: "off", "call", "loop" or "returned"
    query_emb,  \* search_chunks' query_emb
    chunk_embs, \* search_chunks' chunk_embs: the rows of the matrix
    chunkList,  \* search_chunks' chunks: the list of chunks (their ids)
    top_k,      \* search_chunks' top_k
    threshold,  \* search_chunks' threshold
    scores,     \* search_chunks' local scores
    order,      \* search_chunks' local order, and the rows not yet visited
    results,    \* search_chunks' local results
    chunkPc,    \* chunk_text: "off", "call", "loop" or "returned"
    ckPage,     \* chunk_text's page: title and content
    chunk_size, \* chunk_text's chunk_size
    overlap,    \* chunk_text's overlap
    ckParagraphs, \* chunk_text's paragraphs not yet visited by the loop
    ckCurrent,  \* chunk_text's local current
    ckIdx,      \* chunk_text's local idx
    ckChunks,   \* chunk_text's local chunks, and what the call returns
    ckCalls,    \* the number of calls of chunk_text so far
    ckFirst,    \* history: what the first call returned
    storePc,    \* Storage's save and load: the step the caller is at
    storeJob,   \* which pair the caller runs: "chunks" or "embeddings"
    storeFiles, \* the files of base_path: the kind of each and its content
    storeIn,    \* the chunk list or the matrix handed to the save
    storeOut,   \* what the load returned
    loopPc,     \* chat.py's main: where the chat is (startup, the prompt, a handler)
    loopCmd,    \* the line the last input('> ') returned, stripped
    loopOut,    \* what has been printed since that input
    loopFail,   \* history: the operations that have failed since that input
    loopMem,    \* main's locals chunks and embeddings: "None" or "loaded"
    loopIdx,    \* the index files of the local cache: "ok", "missing" or "bad"
    loopTurns,  \* the number of lines read at the prompt so far
    ftPc,       \* fetch_all_pages: where the call is
    max_retries, \* its parameter max_retries
    backoff,    \* its parameter backoff
    attempt,    \* its local attempt
    all_results, \* its local all_results: the pages appended so far
    ftBatch,    \* the batch the call is at (the gapcontinue it sends)
    ftLast,     \* the number of batches the wiki answers with
    ftTries,    \* history: the requests sent for this batch
    ftSleeps,   \* history: the time.sleep() arguments since this batch began
    dlPc,       \* ensure_model: where the call is
    dest,       \* the file at dest
    dlTmp,      \* the file at tmp_path (dest + '.tmp')
    sha256,     \* its parameter sha256: a digest, or NoSha for None
    dlServed,   \* the bytes the server sends for url
    dlGets,     \* history: the requests.get calls so far
    dlDest0,    \* history: the file at dest when the call began
    fxPc,       \* Storage with the FAISS index: where its caller is
    embFile,    \* embeddings.npy of base_path: the matrix it holds
    faissFile,  \* faiss.index of base_path: the rows of the index saved there
    stEmbeddings, \* self.embeddings of the Storage object
    stIndex,    \* self._vectorstore: usable or None, and the rows of its index
    fxQuery,    \* the query_emb of the last search
    fxTopK,     \* its top_k
    fxThreshold, \* its threshold
    fxResults,  \* what it returned
    fxLoads,    \* the number of load_embeddings calls so far
    ckStart,    \* chunk_text: start of the slicing loop
    ckPasses,   \* the passes of the slicing loop so far
    ckSentences,\* chunk_text: the sentences the loop has still to take
    mmPc,       \* mmr_rerank: "off", "call", "loop", "results" or "returned"
    mmQuery,    \* mmr_rerank: query_emb
    mmEmbs,     \* mmr_rerank: candidate_embs, the rows (candidate_chunks[i] is chunk i)
    mmTopK,     \* mmr_rerank: top_k
    mmFetchK,   \* mmr_rerank: fetch_k
    mmLam,      \* mmr_rerank: lambda_param, in halves
    mmSims,     \* mmr_rerank: sims
    mmCands,    \* mmr_rerank: candidate_ids
    mmSelected, \* mmr_rerank: selected
    mmPass,     \* mmr_rerank: the passes of the selection loop so far
    mmResults   \* mmr_rerank: results

lockVars == <<now, lockFile, timeout, pc, lockInfo, info, fdValid, relCtx,
              acqCall, outcome, staleTaken>>

fsVars == <<live, staging, archive, runs, myRun, latest, preLive, swapFault,
            rollbackFault>>

mergeVars == <<stage, full_rebuild, model_name, pages, prev_state, new_state,
               changed_pages, prev_chunks, all_chunks, embeddings, encoded,
               currentIndex, stagingIndex>>

writeVars == <<writeStep, stagingFile, tmpFile>>

readVars == <<swapStep, chat, net_info, cache_info, cache, memory, answered, quietSync>>

searchVars == <<searchPc, query_emb, chunk_embs, chunkList, top_k, threshold, scores,
                order, results>>

chunkVars == <<chunkPc, ckPage, chunk_size, overlap, ckParagraphs, ckCurrent, ckIdx,
               ckChunks, ckCalls, ckFirst>>

storeVars == <<storePc, storeJob, storeFiles, storeIn, storeOut>>

loopVars == <<loopPc, loopCmd, loopOut, loopFail, loopMem, loopIdx, loopTurns>>

dlVars == <<dlPc, dest, dlTmp, sha256, dlServed, dlGets, dlDest0>>

retryVars == <<ftPc, max_retries, backoff, attempt, all_results, ftBatch, ftLast, ftTries,
               ftSleeps>>

faissVars == <<fxPc, embFile, faissFile, stEmbeddings, stIndex, fxQuery, fxTopK, fxThreshold,
               fxResults, fxLoads>>

sliceVars == <<ckStart, ckPasses, ckSentences>>

mmrVars == <<mmPc, mmQuery, mmEmbs, mmTopK, mmFetchK, mmLam, mmSims, mmCands, mmSelected, mmPass, mmResults>>

auxVars == <<chunkVars, storeVars, loopVars, retryVars, dlVars, faissVars, sliceVars, mmrVars>>

ioVars == <<writeVars, readVars, searchVars, auxVars>>

histVars == <<preArchive>>

dataVars == <<mergeVars, ioVars, histVars>>

vars == <<lockVars, fsVars, dataVars>>

\* The file at lock_path: absent, created but not yet written, or a JSON record
\* {timestamp, username, pid, hostname}.  A process's user, pid and host are
\* all written as its number.
NoFile == [state |-> "absent", timestamp |-> 0, username |-> 0, pid |-> 0, hostname |-> 0]
EmptyFile == [state |-> "empty", timestamp |-> 0, username |-> 0, pid |-> 0, hostname |-> 0]
NoInfo == NoFile
NoCall == [lock0 |-> NoFile, callTime |-> 0, cmpTime |-> 0]

\* A mutant of LockRecord: the record keeps a zero timestamp.
LockRecordAs(p, t) ==
    [state |-> "json", timestamp |-> 0, username |-> p, pid |-> p, hostname |-> p]

\* The lock record acquire_lock builds for process p at time t.
LockRecord(p, t) ==
    [state |-> "json", timestamp |-> t, username |-> p, pid |-> p, hostname |-> p]

IsRecord(f) == f.state = "json"

\* Path(lock_path).exists()
Exists(f) == f.state # "absent"

\* A mutant of Stale: a record whose age equals the timeout counts as stale.
StaleAs(t, lockTime, tmo) == t - lockTime >= tmo

\* time.time() - lock_time > timeout
Stale(t, lockTime, tmo) == t - lockTime > tmo

(***************************************************************************)
(* The clock.                                                              *)
(***************************************************************************)
Tick ==
    /\ now < MaxTime
    /\ now' = now + 1
    /\ UNCHANGED <<lockFile, timeout, pc, lockInfo, info, fdValid, relCtx,
                   acqCall, outcome, staleTaken>>
    /\ UNCHANGED <<fsVars, dataVars>>

(***************************************************************************)
(* Storage.acquire_lock, one action per statement that reads or writes the *)
(* lock file or the clock.                                                 *)
(***************************************************************************)
\* if Path(lock_path).exists():
AcqExists(p) ==
    /\ pc[p] = "acq_exists"
    /\ pc' = [pc EXCEPT ![p] = IF Exists(lockFile) THEN "acq_read" ELSE "acq_info"]
    /\ UNCHANGED <<now, lockFile, timeout, lockInfo, info, fdValid, relCtx,
                   acqCall, outcome, staleTaken>>
    /\ UNCHANGED <<fsVars, dataVars>>

\* with open(lock_path, 'r') as f: lock_info = json.load(f)
\* A file removed since the existence check raises FileNotFoundError, a file
\* opened for writing and not yet written raises JSONDecodeError: neither is
\* a RuntimeError.
AcqRead(p) ==
    /\ pc[p] = "acq_read"
    /\ IF IsRecord(lockFile)
       THEN /\ lockInfo' = [lockInfo EXCEPT ![p] = lockFile]
            /\ pc' = [pc EXCEPT ![p] = "acq_age"]
       ELSE /\ pc' = [pc EXCEPT ![p] = "acq_io_error"]
            /\ UNCHANGED lockInfo
    /\ UNCHANGED <<now, lockFile, timeout, info, fdValid, relCtx,
                   acqCall, outcome, staleTaken>>
    /\ UNCHANGED <<fsVars, dataVars>>

\* if time.time() - lock_time > timeout: pass  else: raise RuntimeError
AcqAge(p) ==
    /\ pc[p] = "acq_age"
    /\ pc' = [pc EXCEPT ![p] =
                IF Stale(now, lockInfo[p].timestamp, timeout)
                THEN "acq_info" ELSE "acq_held_error"]
    /\ staleTaken' = (staleTaken \/ Stale(now, lockInfo[p].timestamp, timeout))
    /\ acqCall' = [acqCall EXCEPT ![p].cmpTime = now]
    /\ lockInfo' = [lockInfo EXCEPT ![p] = NoInfo]
    /\ UNCHANGED <<now, lockFile, timeout, info, fdValid, relCtx, outcome>>
    /\ UNCHANGED <<fsVars, dataVars>>

\* info = {'timestamp': now, 'username': ..., 'pid': ..., 'hostname': ...}
AcqInfo(p) ==
    /\ pc[p] = "acq_info"
    /\ info' = [info EXCEPT ![p] = LockRecord(p, now)]
    /\ pc' = [pc EXCEPT ![p] = "acq_open"]
    /\ UNCHANGED <<now, lockFile, timeout, lockInfo, fdValid, relCtx,
                   acqCall, outcome, staleTaken>>
    /\ UNCHANGED <<fsVars, dataVars>>

\* with open(lock_path, 'w') as f: creates or truncates the file
AcqOpen(p) ==
    /\ pc[p] = "acq_open"
    /\ lockFile' = EmptyFile
    /\ fdValid' = [fdValid EXCEPT ![p] = TRUE]
    /\ pc' = [pc EXCEPT ![p] = "acq_dump"]
    /\ UNCHANGED <<now, timeout, lockInfo, info, relCtx, acqCall, outcome, staleTaken>>
    /\ UNCHANGED <<fsVars, dataVars>>

\* json.dump(info, f) and the close that flushes it.  A file unlinked since
\* the open is no longer at lock_path: the write goes to the orphaned file.
AcqDump(p) ==
    /\ pc[p] = "acq_dump"
    /\ lockFile' = IF fdValid[p] THEN info[p] ELSE lockFile
    /\ fdValid' = [fdValid EXCEPT ![p] = FALSE]
    /\ info' = [info EXCEPT ![p] = NoInfo]
    /\ pc' = [pc EXCEPT ![p] = "lock_ok"]
    /\ UNCHANGED <<now, timeout, lockInfo, relCtx, acqCall, outcome, staleTaken>>
    /\ UNCHANGED <<fsVars, dataVars>>

AcquireLock(p) ==
    \/ AcqExists(p)
    \/ AcqRead(p)
    \/ AcqAge(p)
    \/ AcqInfo(p)
    \/ AcqOpen(p)
    \/ AcqDump(p)

(***************************************************************************)
(* Storage.release_lock: exists / unlink, twice.  The call returns to the  *)
(* call site in main: from a stage's error handler or the end of the build *)
(* ("site", inside main's outer try) or from the outer except handler      *)
(* ("fatal", inside its own try / except: pass).                           *)
(***************************************************************************)
\* main after release_lock returned or raised.  Both ways the "fatal" site
\* falls out of main; an exception at a "site" call is caught by the outer
\* except, which calls release_lock again.
AfterRelease(ctx, raised) ==
    IF ctx \in {"call", "call2"}
    THEN (IF raised THEN "rel_raised" ELSE "rel_done")
    ELSE IF ctx = "site" /\ raised THEN "fatal" ELSE "returned"

\* A mutant of RelExists: no existence check before the unlink.
RelExistsAs(p) ==
    /\ pc[p] \in {"rel_exists1", "rel_exists2"}
    /\ pc' = [pc EXCEPT ![p] = IF pc[p] = "rel_exists1" THEN "rel_unlink1" ELSE "rel_unlink2"]
    /\ UNCHANGED <<now, lockFile, timeout, lockInfo, info, fdValid, relCtx,
                   acqCall, outcome, staleTaken>>
    /\ UNCHANGED <<fsVars, dataVars>>

\* if Path(lock_path).exists():   (first and second)
RelExists(p) ==
    /\ pc[p] \in {"rel_exists1", "rel_exists2"}
    /\ pc' = [pc EXCEPT ![p] =
                IF Exists(lockFile)
                THEN (IF pc[p] = "rel_exists1" THEN "rel_unlink1" ELSE "rel_unlink2")
                ELSE (IF pc[p] = "rel_exists1" THEN "rel_exists2"
                      ELSE AfterRelease(relCtx[p], FALSE))]
    /\ UNCHANGED <<now, lockFile, timeout, lockInfo, info, fdValid, relCtx,
                   acqCall, outcome, staleTaken>>
    /\ UNCHANGED <<fsVars, dataVars>>

\* Path(lock_path).unlink()   (first and second); FileNotFoundError when the
\* file has been removed since the existence check.
RelUnlink(p) ==
    /\ pc[p] \in {"rel_unlink1", "rel_unlink2"}
    /\ IF Exists(lockFile)
       THEN /\ lockFile' = NoFile
            /\ fdValid' = [q \in Procs |-> FALSE]
            /\ pc' = [pc EXCEPT ![p] =
                        IF pc[p] = "rel_unlink1" THEN "rel_exists2"
                        ELSE AfterRelease(relCtx[p], FALSE)]
       ELSE /\ pc' = [pc EXCEPT ![p] = AfterRelease(relCtx[p], TRUE)]
            /\ UNCHANGED <<lockFile, fdValid>>
    /\ UNCHANGED <<now, timeout, lockInfo, info, relCtx, acqCall, outcome, staleTaken>>
    /\ UNCHANGED <<fsVars, dataVars>>

ReleaseLock(p) ==
    \/ RelExists(p)
    \/ RelUnlink(p)

(***************************************************************************)
(* main: the lock around the build.                                        *)
(***************************************************************************)
\* storage.acquire_lock(lock_path)
MainStart(p) ==
    /\ pc[p] \in {"idle", "returned"}
    /\ runs < MaxRuns
    /\ runs' = runs + 1
    /\ myRun' = [myRun EXCEPT ![p] = runs + 1]
    /\ pc' = [pc EXCEPT ![p] = "acq_exists"]
    /\ acqCall' = [acqCall EXCEPT ![p] =
                     [lock0 |-> lockFile, callTime |-> now, cmpTime |-> now]]
    /\ outcome' = [outcome EXCEPT ![p] = "running"]
    /\ preLive' = [preLive EXCEPT ![p] = live]
    /\ swapFault' = [swapFault EXCEPT ![p] = "none"]
    /\ rollbackFault' = [rollbackFault EXCEPT ![p] = FALSE]
    /\ UNCHANGED <<now, lockFile, timeout, lockInfo, info, fdValid, relCtx, staleTaken>>
    /\ latest' = [latest EXCEPT ![p] = 0]
    /\ preArchive' = [preArchive EXCEPT ![p] = archive]
    /\ UNCHANGED <<live, staging, archive, mergeVars, ioVars>>

\* except RuntimeError as le: ... return
MainLockHeld(p) ==
    /\ pc[p] = "acq_held_error"
    /\ pc' = [pc EXCEPT ![p] = "returned"]
    /\ outcome' = [outcome EXCEPT ![p] = "lock_held"]
    /\ UNCHANGED <<now, lockFile, timeout, lockInfo, info, fdValid, relCtx,
                   staleTaken>>
    /\ acqCall' = [acqCall EXCEPT ![p] = NoCall]
    /\ UNCHANGED <<fsVars, dataVars>>

\* acquire_lock raised something that is no RuntimeError: the outer
\* except Exception handler
MainLockIoError(p) ==
    /\ pc[p] = "acq_io_error"
    /\ pc' = [pc EXCEPT ![p] = "fatal"]
    /\ outcome' = [outcome EXCEPT ![p] = "lock_io"]
    /\ UNCHANGED <<now, lockFile, timeout, lockInfo, info, fdValid, relCtx,
                   staleTaken>>
    /\ acqCall' = [acqCall EXCEPT ![p] = NoCall]
    /\ UNCHANGED <<fsVars, dataVars>>

\* logging.info('Lock acquired.')
MainLockOk(p) ==
    /\ pc[p] = "lock_ok"
    /\ pc' = [pc EXCEPT ![p] = "fetch"]
    /\ UNCHANGED <<now, lockFile, timeout, lockInfo, info, fdValid, relCtx,
                   outcome, staleTaken>>
    /\ acqCall' = [acqCall EXCEPT ![p] = NoCall]
    /\ UNCHANGED <<fsVars, dataVars>>

\* A mutant of MainFatal: the outer handler returns without releasing.
MainFatalAs(p) ==
    /\ pc[p] = "fatal"
    /\ pc' = [pc EXCEPT ![p] = "returned"]
    /\ UNCHANGED <<now, lockFile, timeout, lockInfo, info, fdValid, relCtx,
                   acqCall, outcome, staleTaken>>
    /\ UNCHANGED <<fsVars, dataVars>>

\* except Exception as e: ... try: storage.release_lock(lock_path)
MainFatal(p) ==
    /\ pc[p] = "fatal"
    /\ pc' = [pc EXCEPT ![p] = "rel_exists1"]
    /\ relCtx' = [relCtx EXCEPT ![p] = "fatal"]
    /\ UNCHANGED <<now, lockFile, timeout, lockInfo, info, fdValid,
                   acqCall, outcome, staleTaken>>
    /\ UNCHANGED <<fsVars, dataVars>>

\* The stages of the build between the lock and its release, as the lock
\* sees them: every path through them ends in a release_lock call.
BuildStages(p) ==
    /\ pc[p] = "fetch"
    /\ pc' = [pc EXCEPT ![p] = "rel_exists1"]
    /\ relCtx' = [relCtx EXCEPT ![p] = "site"]
    /\ outcome' = [outcome EXCEPT ![p] = "stages"]
    /\ UNCHANGED <<now, lockFile, timeout, lockInfo, info, fdValid,
                   acqCall, staleTaken>>
    /\ UNCHANGED <<fsVars, dataVars>>

MainLock(p) ==
    \/ MainStart(p)
    \/ MainLockHeld(p)
    \/ MainLockIoError(p)
    \/ MainLockOk(p)
    \/ MainFatal(p)

\* The index files of a directory (chat.py's INDEX_FILES), in the order the
\* build writes them.
FileOrder == <<"chunks.jsonl", "embeddings.npy", "wiki_state.json", "metadata.json">>
Files == {FileOrder[i] : i \in 1..Len(FileOrder)}

\* A directory: whether it exists, and for each index file the run whose
\* build wrote its content (0: no such file).
NoDir == [exists |-> FALSE, files |-> [f \in Files |-> 0]]
EmptyDir == [exists |-> TRUE, files |-> [f \in Files |-> 0]]

\* The names archive entries can have: the clock's value at the archiving.
Names == 0..MaxTime

\* The content of a directory's index files: the files present, the chunk
\* records of chunks.jsonl, the rows of embeddings.npy, the object of
\* wiki_state.json and the object of metadata.json.  A file that is not
\* present has the empty content.
EmptyState == [pages |-> <<>>]
NoMetadata == [total_pages |-> 0, total_chunks |-> 0, model_name |-> ""]
NoIndex ==
    [present |-> {}, chunks |-> <<>>, embeddings |-> <<>>,
     wiki_state |-> EmptyState, metadata |-> NoMetadata]

\* main's locals before the fetch.
NoLocals ==
    /\ full_rebuild = FALSE
    /\ model_name = ""
    /\ pages = <<>>
    /\ prev_state = EmptyState
    /\ new_state = EmptyState
    /\ changed_pages = <<>>
    /\ prev_chunks = <<>>
    /\ all_chunks = <<>>
    /\ embeddings = <<>>
    /\ encoded = <<>>

\* staging/ before the first build writes to it: no index file, no
\* temporary file.
InitWrite ==
    /\ writeStep = [file |-> 1, phase |-> "idle"]
    /\ stagingFile = [f \in Files |-> "absent"]
    /\ tmpFile = [f \in Files |-> "absent"]

\* chat's chunks = None, embeddings = None.
NoMemory == [chunks |-> 0, embeddings |-> 0]

\* No swap in progress, the chat process not started, its cache empty.
InitRead ==
    /\ swapStep = "idle"
    /\ chat = [cmd |-> "startup", step |-> "off", idx |-> 1]
    /\ net_info = 0
    /\ cache_info = 0
    /\ cache = [f \in Files |-> 0]
    /\ memory = NoMemory
    /\ answered = NoMemory
    /\ quietSync = FALSE

\* No call of search_chunks.
InitSearch ==
    /\ searchPc = "off"
    /\ query_emb = <<>>
    /\ chunk_embs = <<>>
    /\ chunkList = <<>>
    /\ top_k = 0
    /\ threshold = 0
    /\ scores = <<>>
    /\ order = <<>>
    /\ results = <<>>

InitIndexData ==
    /\ stage = "idle"
    /\ NoLocals
    /\ currentIndex = NoIndex
    /\ stagingIndex = NoIndex
    /\ InitWrite
    /\ InitRead

\* No call of chunk_text.
InitChunk ==
    /\ chunkPc = "off"
    /\ ckPage = [title |-> "", content |-> <<>>]
    /\ chunk_size = 1
    /\ overlap = 0
    /\ ckParagraphs = <<>>
    /\ ckCurrent = <<>>
    /\ ckIdx = 0
    /\ ckChunks = <<>>
    /\ ckCalls = 0
    /\ ckFirst = <<>>

\* The files Storage's saves and loads touch, tmp_path and np.save's file
\* beside the two index files.
StoreNames == {"chunks.jsonl", "chunks.jsonl.tmp", "embeddings.npy",
               "embeddings.npy.tmp", "embeddings.npy.tmp.npy"}

\* A file of base_path: absent, left by an earlier build ("old"), or written
\* by the save the model follows.
NoStoreFile == [kind |-> "absent", data |-> <<>>]
OldStoreFile == [kind |-> "old", data |-> <<>>]
StoreFile(content) == [kind |-> "written", data |-> content]

\* No save or load by Storage.
InitStore ==
    /\ storePc = "off"
    /\ storeJob = "chunks"
    /\ storeFiles = [f \in StoreNames |-> NoStoreFile]
    /\ storeIn = <<>>
    /\ storeOut = <<>>

InitLoop ==
    /\ loopPc = "off"
    /\ loopCmd = ""
    /\ loopOut = {}
    /\ loopFail = {}
    /\ loopMem = [chunks |-> "None", embeddings |-> "None"]
    /\ loopIdx = [chunks |-> "ok", embeddings |-> "ok", meta |-> "ok"]
    /\ loopTurns = 0

InitRetry ==
    /\ ftPc = "off"
    /\ max_retries = 3
    /\ backoff = 2
    /\ attempt = 0
    /\ all_results = <<>>
    /\ ftBatch = 1
    /\ ftLast = 1
    /\ ftTries = 0
    /\ ftSleeps = <<>>

\* No file at a path of the model directory.
NoModel == [exists |-> FALSE, data |-> <<>>]

\* sha256=None
NoSha == -1

InitDl ==
    /\ dlPc = "off"
    /\ dest = NoModel
    /\ dlTmp = NoModel
    /\ sha256 = NoSha
    /\ dlServed = <<>>
    /\ dlGets = 0
    /\ dlDest0 = NoModel

\* No faiss.index file, and no index in memory.
NoIndexFile == [exists |-> FALSE, rows |-> <<>>]

NoVectorStore == [usable |-> FALSE, rows |-> <<>>]

\* No call of mmr_rerank.
InitMmr ==
    /\ mmPc = "off"
    /\ mmQuery = <<0, 0>>
    /\ mmEmbs = <<>>
    /\ mmTopK = 0
    /\ mmFetchK = 0
    /\ mmLam = 0
    /\ mmSims = <<>>
    /\ mmCands = <<>>
    /\ mmSelected = <<>>
    /\ mmPass = 0
    /\ mmResults = <<>>

\* No slicing loop.
InitSlice ==
    /\ ckStart = 0
    /\ ckPasses = 0
    /\ ckSentences = <<>>

InitFaiss ==
    /\ fxPc = "off"
    /\ embFile = <<>>
    /\ faissFile = NoIndexFile
    /\ stEmbeddings = <<>>
    /\ stIndex = NoVectorStore
    /\ fxQuery = <<0, 0>>
    /\ fxTopK = 1
    /\ fxThreshold = 0
    /\ fxResults = <<>>
    /\ fxLoads = 0

\* The functions a specification does not follow are not called: every group
\* but the one named.
InitAux(own) ==
    /\ own = "chunk" \/ InitChunk
    /\ own = "store" \/ InitStore
    /\ own = "loop" \/ InitLoop
    /\ own = "retry" \/ InitRetry
    /\ own = "download" \/ InitDl
    /\ own = "faiss" \/ InitFaiss
    /\ own = "slice" \/ InitSlice
    /\ own = "mmr" \/ InitMmr

InitData ==
    /\ InitIndexData
    /\ InitSearch
    /\ InitAux("none")

InitFs ==
    /\ live = NoDir
    /\ staging = EmptyDir
    /\ archive = [exists |-> FALSE, entries |-> [n \in Names |-> NoDir]]
    /\ runs = 0
    /\ myRun = [p \in Procs |-> 0]
    /\ latest = [p \in Procs |-> 0]
    /\ preLive = [p \in Procs |-> NoDir]
    /\ preArchive = [p \in Procs |-> archive]
    /\ swapFault = [p \in Procs |-> "none"]
    /\ rollbackFault = [p \in Procs |-> FALSE]

InitProcs ==
    /\ InitFs
    /\ InitData
    /\ lockInfo = [p \in Procs |-> NoInfo]
    /\ info = [p \in Procs |-> NoInfo]
    /\ fdValid = [p \in Procs |-> FALSE]
    /\ relCtx = [p \in Procs |-> "site"]
    /\ outcome = [p \in Procs |-> "running"]
    /\ staleTaken = FALSE

\* Everything but the search and the functions of InitAux: no lock, no
\* build, no index.
InitCore ==
    /\ now = 0
    /\ timeout = DefaultTimeout
    /\ lockFile = NoFile
    /\ pc = [p \in Procs |-> "idle"]
    /\ acqCall = [p \in Procs |-> NoCall]
    /\ InitFs
    /\ InitIndexData
    /\ lockInfo = [p \in Procs |-> NoInfo]
    /\ info = [p \in Procs |-> NoInfo]
    /\ fdValid = [p \in Procs |-> FALSE]
    /\ relCtx = [p \in Procs |-> "site"]
    /\ outcome = [p \in Procs |-> "running"]
    /\ staleTaken = FALSE

(***************************************************************************)
(* SpecAcquire: one call of acquire_lock(timeout) by process 1, from any   *)
(* lock file another process may have left, at any time.                   *)
(***************************************************************************)
InitAcquire ==
    /\ now \in 0..MaxTime
    /\ timeout \in 0..MaxTimeout
    /\ lockFile \in {NoFile} \cup {LockRecord(Foreign, t) : t \in 0..MaxTime}
    /\ pc = [p \in Procs |-> IF p = 1 THEN "acq_exists" ELSE "idle"]
    /\ acqCall = [p \in Procs |->
                    [lock0 |-> lockFile, callTime |-> now, cmpTime |-> now]]
    /\ InitProcs

NextAcquire ==
    \/ Tick
    \/ AcquireLock(1)

SpecAcquire == InitAcquire /\ [][NextAcquire]_vars

(***************************************************************************)
(* SpecLock: NumProcs build processes, each running main again and again,  *)
(* on one lock file.                                                       *)
(***************************************************************************)
InitLock ==
    /\ now = 0
    /\ timeout = DefaultTimeout
    /\ lockFile = NoFile
    /\ pc = [p \in Procs |-> "idle"]
    /\ acqCall = [p \in Procs |-> NoCall]
    /\ InitProcs

NextLock ==
    \/ Tick
    \/ \E p \in Procs :
          \/ MainLock(p)
          \/ AcquireLock(p)
          \/ BuildStages(p)
          \/ ReleaseLock(p)

SpecLock == InitLock /\ [][NextLock]_vars

\* Process p is between a successful acquire_lock and its release_lock.
Holding(p) == pc[p] \in {"lock_ok", "fetch"}

(***************************************************************************)
(* C1: at most one build process at a time is between a successful         *)
(* acquire_lock and its own release_lock.  Stated here for the runs in     *)
(* which no stale record was overridden (the spec accepts that a reclaim   *)
(* gives up mutual exclusion): the existence check and the write of        *)
(* acquire_lock are separate steps, and two processes that both find no    *)
(* lock file both write one.                                               *)
(***************************************************************************)
C1_MutualExclusion ==
    ~staleTaken => Cardinality({p \in Procs : Holding(p)}) <= 1

(***************************************************************************)
(* C2: acquire_lock(timeout) raises the lock-held error, leaving the lock  *)
(* file as it was, exactly when a record exists whose age at the           *)
(* comparison (clock minus recorded timestamp) is at most timeout; with no *)
(* record, or an older one, it returns and the lock file then holds the    *)
(* caller's user, pid and host and a timestamp taken during the call.      *)
(***************************************************************************)
C2_AcquireContract ==
    LET c == acqCall[1]
        held == IsRecord(c.lock0) /\ c.cmpTime - c.lock0.timestamp <= timeout
    IN  /\ pc[1] = "acq_held_error" => held /\ lockFile = c.lock0
        /\ pc[1] = "lock_ok" =>
              /\ ~held
              /\ IsRecord(lockFile)
              /\ lockFile.username = 1 /\ lockFile.pid = 1 /\ lockFile.hostname = 1
              /\ c.callTime <= lockFile.timestamp /\ lockFile.timestamp <= now
              /\ lockFile.timestamp >= c.cmpTime
        /\ pc[1] # "acq_io_error"
        /\ (pc[1] \in {"acq_info", "acq_open", "acq_dump"}) => ~held

\* A record older than the timeout has been overridden by the caller's.
C2_Witness ==
    /\ pc[1] = "lock_ok"
    /\ IsRecord(acqCall[1].lock0)
    /\ lockFile = LockRecord(1, now)
    /\ timeout > 0

(***************************************************************************)
(* The build: the stages of main between the lock and its release.  Every  *)
(* stage can fail, and every copytree, rmtree and iterdir of the swap and  *)
(* of the rollback can raise partway.  copytree and rmtree go through a    *)
(* directory in listing order, taken to be FileOrder: a copy that raises   *)
(* leaves the files before the failure, a removal that raises leaves the   *)
(* files from the failure on.  A file a copy cut short counts as not       *)
(* copied.                                                                 *)
(***************************************************************************)
\* archives[2:] are removed: the number of archive entries kept.
RetentionCount == 2

\* The files the integrity check looks for.
CheckedFiles == {"chunks.jsonl", "embeddings.npy", "wiki_state.json"}

Present(d) == {f \in Files : d.files[f] # 0}

\* The directory holds all four index files.
Complete(d) == d.exists /\ Present(d) = Files

Restricted(d, S) ==
    [exists |-> TRUE, files |-> [f \in Files |-> IF f \in S THEN d.files[f] ELSE 0]]

\* shutil.copytree(src, dst) that returned: dst is a new directory with src's files.
CopyOf(d) == Restricted(d, Files)

\* The first n files in listing order, and the files after them.
FirstFiles(n) == {FileOrder[i] : i \in 1..n}
LastFiles(n) == Files \ FirstFiles(n)

\* shutil.copytree(src, dst) that raised: dst was not created, or holds the
\* files copied before the failure.
PartialCopies(d) ==
    {NoDir} \cup {Restricted(d, FirstFiles(n)) : n \in 0..(Len(FileOrder) - 1)}

\* shutil.rmtree(d) that raised: the directory is still there, with the
\* files not yet removed.
PartialRemovals(d) == {Restricted(d, LastFiles(n)) : n \in 0..Len(FileOrder)}

\* archive_path.iterdir(): the names of the entries.
ArchiveNames(a) == {n \in Names : a.entries[n].exists}

\* The first k names of sorted(names, reverse=True).
Newest(S, k) == {n \in S : Cardinality({m \in S : m > n}) < k}

\* archives[0] of sorted(archive_path.iterdir(), key=name, reverse=True)
Latest(a) == CHOOSE n \in ArchiveNames(a) : \A m \in ArchiveNames(a) : m <= n

\* The archive with the entries named in S removed.
Without(a, S) ==
    [a EXCEPT !.entries = [n \in Names |-> IF n \in S THEN NoDir ELSE a.entries[n]]]

\* A mutant of ToPrune: the pruning keeps no entry (archives[0:]).
ToPruneAs(a) == ArchiveNames(a)

\* for old in archives[2:]: the names the pruning removes, newest first.
ToPrune(a) == ArchiveNames(a) \ Newest(ArchiveNames(a), RetentionCount)

lockRest == <<now, lockFile, timeout, lockInfo, info, fdValid, acqCall, staleTaken>>

Goto(p, label) ==
    /\ pc' = [pc EXCEPT ![p] = label]
    /\ UNCHANGED <<relCtx, outcome>>

\* A mutant of ReleaseAndReturn: the handler returns without release_lock.
ReleaseAndReturnAs(p, how) ==
    /\ pc' = [pc EXCEPT ![p] = "returned"]
    /\ relCtx' = [relCtx EXCEPT ![p] = "site"]
    /\ outcome' = [outcome EXCEPT ![p] = how]

\* storage.release_lock(lock_path); return   (in a stage's handler, and at
\* the end of main)
ReleaseAndReturn(p, how) ==
    /\ pc' = [pc EXCEPT ![p] = "rel_exists1"]
    /\ relCtx' = [relCtx EXCEPT ![p] = "site"]
    /\ outcome' = [outcome EXCEPT ![p] = how]

\* An exception no stage handler catches: main's outer except Exception.
RaiseFatal(p, how) ==
    /\ pc' = [pc EXCEPT ![p] = "fatal"]
    /\ outcome' = [outcome EXCEPT ![p] = how]
    /\ UNCHANGED relCtx

\* pages = fetcher.fetch_all_pages(...)  /  except Exception as fetch_err
Fetch(p) ==
    /\ pc[p] = "fetch"
    /\ \/ Goto(p, "prepare")
       \/ ReleaseAndReturn(p, "fetch")
    /\ UNCHANGED <<lockRest, dataVars, fsVars>>

\* Reading the previous state and chunks, change detection, chunking: no
\* handler of their own.
Prepare(p) ==
    /\ pc[p] = "prepare"
    /\ \/ Goto(p, "embed")
       \/ RaiseFatal(p, "unexpected")
    /\ UNCHANGED <<lockRest, dataVars, fsVars>>

\* embeddings = embedder.embed_chunks(all_chunks)  /  except Exception as embed_err
Embed(p) ==
    /\ pc[p] = "embed"
    /\ \/ Goto(p, "write")
       \/ ReleaseAndReturn(p, "embed")
    /\ UNCHANGED <<lockRest, dataVars, fsVars>>

\* A mutant of WriteStaging: the files are written to current_path.
WriteStagingAs(p) ==
    /\ pc[p] = "write"
    /\ \E n \in 0..Len(FileOrder) :
          /\ live' = [exists |-> TRUE,
                      files |-> [f \in Files |->
                                   IF \E i \in 1..n : FileOrder[i] = f
                                   THEN myRun[p] ELSE live.files[f]]]
          /\ IF n = Len(FileOrder)
             THEN Goto(p, "integrity")
             ELSE ReleaseAndReturn(p, "write")
    /\ UNCHANGED <<lockRest, dataVars, staging, archive, runs, myRun, latest, preLive,
                   swapFault, rollbackFault>>

\* The four writes to staging, in order; an exception after the first n.
WriteStaging(p) ==
    /\ pc[p] = "write"
    /\ \E n \in 0..Len(FileOrder) :
          /\ staging' = [staging EXCEPT !.files =
                           [f \in Files |->
                              IF \E i \in 1..n : FileOrder[i] = f
                              THEN myRun[p] ELSE staging.files[f]]]
          /\ IF n = Len(FileOrder)
             THEN Goto(p, "integrity")
             ELSE ReleaseAndReturn(p, "write")
    /\ UNCHANGED <<lockRest, dataVars, live, archive, runs, myRun, latest, preLive,
                   swapFault, rollbackFault>>

\* A staged artifact is missing after the writes (the case the integrity
\* check is there for): the shared drive lost it.
StagingFileLost(p) ==
    /\ pc[p] = "integrity"
    /\ \A f \in Files : staging.files[f] = myRun[p]
    /\ \E f \in Files : staging' = [staging EXCEPT !.files[f] = 0]
    /\ UNCHANGED <<lockRest, dataVars, pc, relCtx, outcome, live, archive, runs, myRun,
                   latest, preLive, swapFault, rollbackFault>>

\* integrity_report / missing / if missing: ... release_lock; return
IntegrityCheck(p) ==
    /\ pc[p] = "integrity"
    /\ IF \E f \in CheckedFiles : staging.files[f] = 0
       THEN ReleaseAndReturn(p, "integrity")
       ELSE Goto(p, "swap_check")
    /\ UNCHANGED <<lockRest, dataVars, fsVars>>

\* The swap raised at `step`: except Exception as swap_err
SwapError(p, step) ==
    /\ pc' = [pc EXCEPT ![p] = "rollback"]
    /\ swapFault' = [swapFault EXCEPT ![p] = step]
    /\ UNCHANGED <<relCtx, outcome>>

\* if current_path.exists():
SwapCheck(p) ==
    /\ pc[p] = "swap_check"
    /\ Goto(p, IF live.exists THEN "swap_archive" ELSE "swap_promote")
    /\ UNCHANGED <<lockRest, dataVars, fsVars>>

\* archive_ver = archive_path / timestamp; shutil.copytree(current_path, archive_ver)
\* copytree raises FileExistsError when archive_ver exists.  Its makedirs
\* creates archive/ and then the entry; a failure can leave archive/ made,
\* the entry not.
SwapArchive(p) ==
    /\ pc[p] = "swap_archive"
    /\ IF archive.entries[now].exists
       THEN /\ SwapError(p, "archive_exists")
            /\ UNCHANGED archive
       ELSE \/ /\ archive' = [exists |-> TRUE,
                              entries |-> [archive.entries EXCEPT ![now] = CopyOf(live)]]
               /\ Goto(p, "swap_remove")
               /\ UNCHANGED swapFault
            \/ /\ \E d \in PartialCopies(live), made \in BOOLEAN :
                     archive' = [exists |-> archive.exists \/ d.exists \/ made,
                                 entries |-> [archive.entries EXCEPT ![now] = d]]
               /\ SwapError(p, "archive_copy")
    /\ UNCHANGED <<lockRest, dataVars, live, staging, runs, myRun, latest, preLive, rollbackFault>>

\* shutil.rmtree(current_path)
SwapRemove(p) ==
    /\ pc[p] = "swap_remove"
    /\ \/ /\ live' = NoDir
          /\ Goto(p, "swap_prune")
          /\ UNCHANGED swapFault
       \/ /\ live' \in PartialRemovals(live)
          /\ SwapError(p, "live_remove")
    /\ UNCHANGED <<lockRest, dataVars, staging, archive, runs, myRun, latest, preLive, rollbackFault>>

\* archives = sorted(archive_path.iterdir(), ..., reverse=True)
\* for old in archives[2:]: shutil.rmtree(old)
\* A failure leaves the entries not yet reached.
SwapPrune(p) ==
    /\ pc[p] = "swap_prune"
    /\ \/ /\ archive' = Without(archive, ToPrune(archive))
          /\ Goto(p, "swap_promote")
          /\ UNCHANGED swapFault
       \/ /\ \E k \in 0..Cardinality(ToPrune(archive)) :
                /\ k = 0 \/ k < Cardinality(ToPrune(archive))
                /\ archive' = Without(archive, Newest(ToPrune(archive), k))
          /\ SwapError(p, "prune")
    /\ UNCHANGED <<lockRest, dataVars, live, staging, runs, myRun, latest, preLive, rollbackFault>>

\* shutil.copytree(staging_path, current_path)
SwapPromote(p) ==
    /\ pc[p] = "swap_promote"
    /\ IF live.exists
       THEN /\ SwapError(p, "promote")
            /\ UNCHANGED live
       ELSE \/ /\ live' = CopyOf(staging)
               /\ Goto(p, "swap_done")
               /\ UNCHANGED swapFault
            \/ /\ live' \in PartialCopies(staging)
               /\ SwapError(p, "promote")
    /\ UNCHANGED <<lockRest, dataVars, staging, archive, runs, myRun, latest, preLive, rollbackFault>>

\* storage.release_lock(lock_path) at the end of main
SwapDone(p) ==
    /\ pc[p] = "swap_done"
    /\ ReleaseAndReturn(p, "ok")
    /\ UNCHANGED <<lockRest, dataVars, fsVars>>

\* The rollback raised: the exception leaves the swap's handler for main's
\* outer except Exception.
RollbackError(p) ==
    /\ RaiseFatal(p, "rollback_failed")
    /\ rollbackFault' = [rollbackFault EXCEPT ![p] = TRUE]

\* archives = sorted(archive_path.iterdir(), ..., reverse=True)
\* if archives: latest = archives[0]
\* iterdir raises FileNotFoundError when archive/ does not exist.
RollbackList(p) ==
    /\ pc[p] = "rollback"
    /\ IF ~archive.exists
       THEN /\ RollbackError(p)
            /\ UNCHANGED latest
       ELSE \/ /\ ArchiveNames(archive) = {}
               /\ Goto(p, "rollback_done")
               /\ UNCHANGED <<latest, rollbackFault>>
            \/ /\ ArchiveNames(archive) # {}
               /\ latest' = [latest EXCEPT ![p] = Latest(archive)]
               /\ Goto(p, "rollback_remove")
               /\ UNCHANGED rollbackFault
            \/ /\ RollbackError(p)
               /\ UNCHANGED latest
    /\ UNCHANGED <<lockRest, dataVars, live, staging, archive, runs, myRun, preLive, swapFault>>

\* if current_path.exists(): shutil.rmtree(current_path)
RollbackRemove(p) ==
    /\ pc[p] = "rollback_remove"
    /\ IF ~live.exists
       THEN /\ Goto(p, "rollback_copy")
            /\ UNCHANGED <<live, rollbackFault>>
       ELSE \/ /\ live' = NoDir
               /\ Goto(p, "rollback_copy")
               /\ UNCHANGED rollbackFault
            \/ /\ live' \in PartialRemovals(live)
               /\ RollbackError(p)
    /\ UNCHANGED <<lockRest, dataVars, staging, archive, runs, myRun, latest, preLive, swapFault>>

\* shutil.copytree(latest, current_path)
RollbackCopy(p) ==
    /\ pc[p] = "rollback_copy"
    /\ \/ /\ live' = CopyOf(archive.entries[latest[p]])
          /\ Goto(p, "rollback_done")
          /\ UNCHANGED rollbackFault
       \/ /\ live' \in PartialCopies(archive.entries[latest[p]])
          /\ RollbackError(p)
    /\ UNCHANGED <<lockRest, dataVars, staging, archive, runs, myRun, latest, preLive, swapFault>>

\* storage.release_lock(lock_path); return   (the end of the swap's handler)
RollbackDone(p) ==
    /\ pc[p] = "rollback_done"
    /\ ReleaseAndReturn(p, "swap")
    /\ UNCHANGED <<lockRest, dataVars, fsVars>>

Build(p) ==
    \/ Fetch(p)
    \/ Prepare(p)
    \/ Embed(p)
    \/ WriteStaging(p)
    \/ StagingFileLost(p)
    \/ IntegrityCheck(p)
    \/ SwapCheck(p)
    \/ SwapArchive(p)
    \/ SwapRemove(p)
    \/ SwapPrune(p)
    \/ SwapPromote(p)
    \/ SwapDone(p)
    \/ RollbackList(p)
    \/ RollbackRemove(p)
    \/ RollbackCopy(p)
    \/ RollbackDone(p)

(***************************************************************************)
(* SpecBuild: process 1 runs main up to MaxRuns times, alone; a lock       *)
(* record of another owner may be there at the start.                      *)
(***************************************************************************)
\* The clock as the one build process sees it: it reads the clock when
\* main starts, in acquire_lock's age comparison and record, and for the
\* archive entry's name; a tick anywhere else is a tick before the next of
\* these.
TickBuild ==
    /\ pc[1] \in {"idle", "returned", "acq_age", "acq_info", "swap_archive"}
    /\ Tick

InitBuild ==
    /\ now = 0
    /\ timeout = DefaultTimeout
    /\ lockFile \in {NoFile, LockRecord(Foreign, 0)}
    /\ pc = [p \in Procs |-> "idle"]
    /\ acqCall = [p \in Procs |-> NoCall]
    /\ InitProcs

NextBuild ==
    \/ TickBuild
    \/ MainStart(1)
    \/ MainLockHeld(1)
    \/ MainLockOk(1)
    \/ MainFatal(1)
    \/ AcquireLock(1)
    \/ Build(1)
    \/ ReleaseLock(1)

SpecBuild == InitBuild /\ [][NextBuild]_vars

\* p's run of main acquired the lock.
Acquired(p) == outcome[p] \notin {"running", "lock_held", "lock_io"}

(***************************************************************************)
(* C3: a run of main that acquired the lock and has returned, by whichever *)
(* path (fetch, embedding, write, integrity or swap error, failed          *)
(* rollback, unexpected exception, success), has deleted the lock file.    *)
(***************************************************************************)
C3_LockReleasedOnReturn ==
    (pc[1] = "returned" /\ Acquired(1)) => lockFile = NoFile

\* A run whose rollback itself raised has returned.
C3_Witness ==
    /\ pc[1] = "returned"
    /\ outcome[1] = "rollback_failed"
    /\ rollbackFault[1]
    /\ lockFile = NoFile

\* The swap of p's run raised after the archive copy was complete and before
\* the copy of staging into current/ had completed.
FailedAfterArchive(p) == swapFault[p] \in {"live_remove", "prune", "promote"}

(***************************************************************************)
(* C4: a live index existed before the build, the swap raised after the    *)
(* live index had been archived and before staging was fully copied, and   *)
(* the rollback ran without raising itself: when the build has returned,   *)
(* current/ holds exactly the pre-build index.                             *)
(***************************************************************************)
C4_SwapAtomicity ==
    (/\ pc[1] = "returned"
     /\ preLive[1].exists
     /\ FailedAfterArchive(1)
     /\ ~rollbackFault[1])
    => live = preLive[1]

\* The copy of staging broke off partway and the pre-build index is back.
C4_Witness ==
    /\ pc[1] = "returned"
    /\ Complete(preLive[1])
    /\ swapFault[1] = "promote"
    /\ ~rollbackFault[1]
    /\ live = preLive[1]
    /\ live # CopyOf(staging)

(***************************************************************************)
(* C5: a complete live index existed before the build and step (1) (the    *)
(* archive copy or the removal of current/) or step (3) (the copy of       *)
(* staging) raised: the build does not return with current/ absent or      *)
(* incomplete.  Stated for the runs whose rollback did not raise itself.   *)
(***************************************************************************)
C5_NeverEndsWithoutLiveIndex ==
    (/\ pc[1] = "returned"
     /\ Complete(preLive[1])
     /\ swapFault[1] \in {"archive_copy", "archive_exists", "live_remove", "promote"}
     /\ ~rollbackFault[1])
    => Complete(live)

(***************************************************************************)
(* C6: in the swap and its rollback, current/ is removed only after a      *)
(* complete copy of its content has been written to archive/.  Stated for  *)
(* the steps that remove files of the complete pre-build index.            *)
(***************************************************************************)
C6_RemoveOnlyAfterArchive ==
    [][(/\ Complete(live)
        /\ live = preLive[1]
        /\ \E f \in Files : live'.files[f] # live.files[f])
       => \E n \in Names : archive.entries[n] = CopyOf(live)]_vars


(***************************************************************************)
(* C14: a run in which one of the four staged artifacts is missing after   *)
(* the writes executes no archive, removal or copy step: no step of it     *)
(* changes current/ or archive/.                                           *)
(***************************************************************************)
C14_MissingArtifactAborts ==
    [][(\E f \in Files : staging.files[f] = 0)
       => (live' = live /\ archive' = archive)]_vars

\* The ways a run gives up before its swap.
AbortOutcomes == {"lock_held", "fetch", "embed", "write", "integrity"}

(***************************************************************************)
(* C15: when a run has returned with a lock-held, fetch, embedding, write  *)
(* or integrity error, current/ and archive/ are as they were when the run *)
(* started.                                                                *)
(***************************************************************************)
C15_AbortLeavesIndexUntouched ==
    (pc[1] = "returned" /\ outcome[1] \in AbortOutcomes)
    => (live = preLive[1] /\ archive = preArchive[1])

\* A run over an existing live index has given up at the integrity check.
C15_Witness ==
    /\ pc[1] = "returned"
    /\ outcome[1] = "integrity"
    /\ Complete(live)
    /\ live = preLive[1]
    /\ archive = preArchive[1]

\* The exit status of `python scripts/update_index.py` after main has ended
\* in the way `how`: main ends by return or by falling off its end on every
\* path, nothing calls sys.exit, and no exception leaves the outer try.
ReturnCode(how) == 0

\* chat.py's /update: if result.returncode == 0: "Index update completed..."
UpdateReportsSuccess(how) == ReturnCode(how) = 0

(***************************************************************************)
(* C16: when a run of the rebuild command has ended, its exit code is 0    *)
(* exactly when the build succeeded and the new index was promoted, so     *)
(* /update reports success for successful builds only.                     *)
(***************************************************************************)
C16_ExitCodeTellsSuccess ==
    pc[1] = "returned" =>
        /\ ReturnCode(outcome[1]) = 0 <=> outcome[1] = "ok"
        /\ UpdateReportsSuccess(outcome[1]) => outcome[1] = "ok"

(***************************************************************************)
(* The data of a build: the fetched pages, the change detection against    *)
(* the previous page state, the merge of carried-over and regenerated      *)
(* chunks, the embeddings, and the index written to staging/ and copied to *)
(* current/.                                                               *)
(***************************************************************************)
Titles == 1..NumTitles

\* The values of config['models']['embedding'].
Models == {"MiniLM-L12", "mpnet-base"}

\* A revision's timestamp: a value no revision id has.
TimestampOf(r) == MaxRev + r

\* A page record of fetch_all_pages: {title, content, revid, timestamp}.  The
\* revision determines the content.
Page(t, r) ==
    [title |-> t, content |-> <<t, r>>, revid |-> r, timestamp |-> TimestampOf(r)]

\* The lists fetch_all_pages can return: generator=allpages lists every page
\* of the wiki once, by title; f[t] = 0 says the wiki has no page t.
Listing(f) == SelectSeq([t \in Titles |-> Page(t, f[t])], LAMBDA page : page.revid # 0)
FetchResults == {Listing(f) : f \in [Titles -> 0..MaxRev]}

\* The number of chunks of a content: a function of the content, none for
\* some contents (chunk_text returns [] for an empty text).
ChunkCount(content) == (content[1] + content[2]) % 3

\* chunk_text(page): the chunk records of a page, {id, text, page_title,
\* chunk_index}; the text is a slice of the content.
chunk_text(page) ==
    [idx \in 1..ChunkCount(page.content) |->
        [id |-> <<page.title, idx - 1>>, text |-> <<page.content, idx - 1>>,
         page_title |-> page.title, chunk_index |-> idx - 1]]

\* d[k] = v on a dict.
Put(d, k, v) == [x \in (DOMAIN d) \cup {k} |-> IF x = k THEN v ELSE d[x]]

\* A mutant of IsChanged: the revision ids are not compared.
IsChangedAs(flag, prev_pages, page) ==
    \/ flag
    \/ page.title \notin DOMAIN prev_pages

\* prev = prev_pages.get(title)
\* args.full_rebuild or not prev or prev.get("revid") != revid
IsChanged(flag, prev_pages, page) ==
    \/ flag
    \/ page.title \notin DOMAIN prev_pages
    \/ prev_pages[page.title].revid # page.revid

\* A mutant of NewStateInit: the new state starts as the previous state.
NewStateInitAs == prev_state

\* new_state = {"pages": {}}
NewStateInit == EmptyState

\* for page in pages: new_state["pages"][title] = {"revid": revid, "timestamp": timestamp}
RECURSIVE RecordPages(_, _)
RecordPages(st, ps) ==
    IF ps = <<>>
    THEN st
    ELSE RecordPages([pages |-> Put(st.pages, Head(ps).title,
                                    [revid |-> Head(ps).revid,
                                     timestamp |-> Head(ps).timestamp])],
                     Tail(ps))

\* [p['title'] for p in changed_pages]
TitlesOf(ps) == {ps[i].title : i \in 1..Len(ps)}

\* A mutant of CarriedOver: the titles of the changed pages are not left out.
CarriedOverAs(prev_pages, new_pages, changed, chunks) ==
    SelectSeq(chunks,
              LAMBDA chunk : chunk.page_title \in (DOMAIN prev_pages) \cap (DOMAIN new_pages))

\* The chunks of prev_chunks the merge keeps: those whose page_title is in
\* unchanged_titles and not the title of a changed page.
CarriedOver(prev_pages, new_pages, changed, chunks) ==
    SelectSeq(chunks,
              LAMBDA chunk : /\ chunk.page_title \in (DOMAIN prev_pages) \cap (DOMAIN new_pages)
                             /\ chunk.page_title \notin TitlesOf(changed))

\* A mutant of ChunkPages: each page's chunks are put in front of the list.
RECURSIVE ChunkPagesAs(_)
ChunkPagesAs(ps) ==
    IF ps = <<>> THEN <<>> ELSE ChunkPagesAs(Tail(ps)) \o chunk_text(Head(ps))

\* for page in changed_pages: all_chunks.extend(chunk_text(page, ...))
RECURSIVE ChunkPages(_)
ChunkPages(ps) ==
    IF ps = <<>> THEN <<>> ELSE chunk_text(Head(ps)) \o ChunkPages(Tail(ps))

\* self.model.encode of one text: the vector is a function of the model and
\* of the text.
Encode(model, text) == <<model, text>>

\* texts = [chunk['text'] for chunk in chunks]
Texts(chunks) == [i \in 1..Len(chunks) |-> chunks[i].text]

\* Embedder(model).embed_chunks(chunks)
embed_chunks(model, chunks) ==
    [i \in 1..Len(chunks) |-> Encode(model, Texts(chunks)[i])]

\* The index a build has put together, as written to staging/.
BuiltIndex ==
    [present |-> Files, chunks |-> all_chunks, embeddings |-> embeddings,
     wiki_state |-> new_state,
     metadata |-> [total_pages |-> Len(pages), total_chunks |-> Len(all_chunks),
                   model_name |-> model_name]]

\* A directory with the files in S of the index x, and no other.
Partial(x, S) ==
    [present |-> x.present \cap S,
     chunks |-> IF "chunks.jsonl" \in S THEN x.chunks ELSE <<>>,
     embeddings |-> IF "embeddings.npy" \in S THEN x.embeddings ELSE <<>>,
     wiki_state |-> IF "wiki_state.json" \in S THEN x.wiki_state ELSE EmptyState,
     metadata |-> IF "metadata.json" \in S THEN x.metadata ELSE NoMetadata]

\* main returns: its locals are gone.
Return ==
    /\ stage' = "idle"
    /\ full_rebuild' = FALSE
    /\ model_name' = ""
    /\ pages' = <<>>
    /\ prev_state' = EmptyState
    /\ new_state' = EmptyState
    /\ changed_pages' = <<>>
    /\ prev_chunks' = <<>>
    /\ all_chunks' = <<>>
    /\ embeddings' = <<>>
    /\ encoded' = <<>>

diskVars == <<currentIndex, stagingIndex>>

\* pages = fetcher.fetch_all_pages(...), under the run's --full-rebuild flag
\* and configuration.
FetchPages ==
    /\ stage = "idle"
    /\ stage' = "fetched"
    /\ full_rebuild' \in BOOLEAN
    /\ model_name' \in Models
    /\ pages' \in FetchResults
    /\ UNCHANGED <<prev_state, new_state, changed_pages, prev_chunks, all_chunks,
                   embeddings, encoded, diskVars, lockVars, fsVars, ioVars, histVars>>

\* A mutant of LoadPrevState: the state file is read under --full-rebuild too.
LoadPrevStateAs ==
    /\ stage = "fetched"
    /\ stage' = "loaded"
    /\ prev_state' = IF "wiki_state.json" \in currentIndex.present
                     THEN currentIndex.wiki_state
                     ELSE EmptyState
    /\ UNCHANGED <<full_rebuild, model_name, pages, new_state, changed_pages,
                   prev_chunks, all_chunks, embeddings, encoded, diskVars,
                   lockVars, fsVars, ioVars, histVars>>

\* if not args.full_rebuild and state_path.exists(): prev_state = json.load(f)
\* else: prev_state = {"pages": {}}
LoadPrevState ==
    /\ stage = "fetched"
    /\ stage' = "loaded"
    /\ prev_state' = IF ~full_rebuild /\ "wiki_state.json" \in currentIndex.present
                     THEN currentIndex.wiki_state
                     ELSE EmptyState
    /\ UNCHANGED <<full_rebuild, model_name, pages, new_state, changed_pages,
                   prev_chunks, all_chunks, embeddings, encoded, diskVars,
                   lockVars, fsVars, ioVars, histVars>>

\* prev_pages = prev_state.get("pages", {}); the loop over pages that fills
\* new_state and changed_pages.
DetectChanges ==
    /\ stage = "loaded"
    /\ stage' = "detected"
    /\ new_state' = RecordPages(NewStateInit, pages)
    /\ changed_pages' = SelectSeq(pages,
                            LAMBDA page : IsChanged(full_rebuild, prev_state.pages, page))
    /\ UNCHANGED <<full_rebuild, model_name, pages, prev_state, prev_chunks,
                   all_chunks, embeddings, encoded, diskVars, lockVars, fsVars, ioVars, histVars>>

\* prev_chunks is read from current/chunks.jsonl unless the build is a full
\* rebuild or the file is not there; all_chunks is the chunks carried over
\* followed by the chunks of the changed pages.
MergeChunks ==
    /\ stage = "detected"
    /\ stage' = "merged"
    /\ prev_chunks' = IF ~full_rebuild /\ "chunks.jsonl" \in currentIndex.present
                      THEN currentIndex.chunks
                      ELSE <<>>
    /\ all_chunks' = (IF full_rebuild
                      THEN <<>>
                      ELSE CarriedOver(prev_state.pages, new_state.pages,
                                       changed_pages, prev_chunks'))
                     \o ChunkPages(changed_pages)
    /\ UNCHANGED <<full_rebuild, model_name, pages, prev_state, new_state,
                   changed_pages, embeddings, encoded, diskVars, lockVars, fsVars, ioVars, histVars>>

\* embedder = Embedder(config['models']['embedding'])
\* embeddings = embedder.embed_chunks(all_chunks)  /  except Exception as embed_err
EmbedChunks ==
    /\ stage = "merged"
    /\ \/ /\ stage' = "embedded"
          /\ embeddings' = embed_chunks(model_name, all_chunks)
          /\ encoded' = Texts(all_chunks)
          /\ UNCHANGED <<full_rebuild, model_name, pages, prev_state, new_state,
                         changed_pages, prev_chunks, all_chunks>>
       \/ Return
    /\ UNCHANGED <<diskVars, lockVars, fsVars, ioVars, histVars>>

\* save_chunks, save_embeddings and the dumps of new_state and metadata to
\* staging/, all four completed.
SaveStaging ==
    /\ stage = "embedded"
    /\ stage' = "written"
    /\ stagingIndex' = BuiltIndex
    /\ UNCHANGED <<full_rebuild, model_name, pages, prev_state, new_state,
                   changed_pages, prev_chunks, all_chunks, embeddings, encoded,
                   currentIndex, lockVars, fsVars, ioVars, histVars>>

\* The swap: current/ becomes a copy of staging/, or, when the copy breaks
\* off and nothing is restored, holds the files copied before the failure.
PromoteStaging ==
    /\ stage = "written"
    /\ \/ currentIndex' = stagingIndex
       \/ \E n \in 0..(Len(FileOrder) - 1) :
             currentIndex' = Partial(stagingIndex, FirstFiles(n))
    /\ Return
    /\ UNCHANGED <<stagingIndex, lockVars, fsVars, ioVars, histVars>>

(***************************************************************************)
(* SpecMerge: build after build, each from what the build before it left   *)
(* in current/, each with its own flag, embedding model and fetch result.  *)
(* The builds are those that get as far as their swap (SpecBuild has the   *)
(* others); a run that gives up before its swap, or whose rollback         *)
(* restores current/, leaves current/ as an earlier build published it.    *)
(***************************************************************************)
InitMerge ==
    /\ now = 0
    /\ timeout = DefaultTimeout
    /\ lockFile = NoFile
    /\ pc = [p \in Procs |-> "idle"]
    /\ acqCall = [p \in Procs |-> NoCall]
    /\ InitProcs

NextMerge ==
    \/ FetchPages
    \/ LoadPrevState
    \/ DetectChanges
    \/ MergeChunks
    \/ EmbedChunks
    \/ SaveStaging
    \/ PromoteStaging

SpecMerge == InitMerge /\ [][NextMerge]_vars

\* The page state in current/ when the build runs: the previous state.
PrevEntries ==
    IF "wiki_state.json" \in currentIndex.present
    THEN currentIndex.wiki_state.pages
    ELSE <<>>

\* The chunk at position i of the staged list was carried over from position
\* j of the previous index.
IsCarried(i, j) ==
    /\ ~full_rebuild
    /\ j \in 1..Len(currentIndex.chunks)
    /\ stagingIndex.chunks[i] = currentIndex.chunks[j]
    /\ stagingIndex.chunks[i].page_title \notin TitlesOf(changed_pages)

(***************************************************************************)
(* C7: when a build has written staging, the chunk list and the embedding  *)
(* matrix have the same length, row i is the embedding of chunk i, and a   *)
(* chunk carried over from the previous index has the vector it had there. *)
(***************************************************************************)
C7_EmbeddingAlignment ==
    stage = "written" =>
        /\ Len(stagingIndex.chunks) = Len(stagingIndex.embeddings)
        /\ \A i \in 1..Len(stagingIndex.chunks) :
              \E m \in Models :
                 stagingIndex.embeddings[i] = Encode(m, stagingIndex.chunks[i].text)
        /\ \A i \in 1..Len(stagingIndex.chunks), j \in 1..Len(currentIndex.embeddings) :
              IsCarried(i, j) => stagingIndex.embeddings[i] = currentIndex.embeddings[j]

(***************************************************************************)
(* C8: in an incremental build, every text passed to the embedding model   *)
(* is the text of a chunk of a changed page.                               *)
(***************************************************************************)
C8_EmbedOnlyChanged ==
    (stage \in {"embedded", "written"} /\ ~full_rebuild) =>
        \A k \in 1..Len(encoded) :
           \E i \in 1..Len(changed_pages) :
              \E c \in 1..Len(chunk_text(changed_pages[i])) :
                 chunk_text(changed_pages[i])[c].text = encoded[k]

(***************************************************************************)
(* C9: the changed-page list holds fetched pages only, and holds a fetched *)
(* page exactly when the build is a full rebuild, or the previous state    *)
(* has no entry for its title, or the entry's revision id is not the       *)
(* page's.                                                                 *)
(***************************************************************************)
C9_ChangeDetection ==
    stage \in {"detected", "merged", "embedded", "written"} =>
        /\ \A k \in 1..Len(changed_pages) :
              \E i \in 1..Len(pages) : changed_pages[k] = pages[i]
        /\ \A i \in 1..Len(pages) :
              (\E k \in 1..Len(changed_pages) : changed_pages[k] = pages[i])
              <=> \/ full_rebuild
                  \/ pages[i].title \notin DOMAIN PrevEntries
                  \/ PrevEntries[pages[i].title].revid # pages[i].revid

\* An incremental build over two fetched pages the previous state has: one
\* at the recorded revision, left out; one at another revision, listed.
C9_Witness ==
    /\ stage = "detected"
    /\ ~full_rebuild
    /\ \E i, j \in 1..Len(pages) :
          /\ pages[i].title \in DOMAIN PrevEntries
          /\ PrevEntries[pages[i].title].revid = pages[i].revid
          /\ \A k \in 1..Len(changed_pages) : changed_pages[k] # pages[i]
          /\ pages[j].title \in DOMAIN PrevEntries
          /\ PrevEntries[pages[j].title].revid # pages[j].revid
          /\ \E k \in 1..Len(changed_pages) : changed_pages[k] = pages[j]

(***************************************************************************)
(* C10: the page state a build writes has exactly the titles of the        *)
(* fetched pages, each with the fetched revision id and timestamp; a title *)
(* of the previous state that was not fetched is in neither the written    *)
(* state nor the written chunk list.                                       *)
(***************************************************************************)
C10_NewStateExact ==
    stage = "written" =>
        LET st == stagingIndex.wiki_state.pages IN
        /\ DOMAIN st = TitlesOf(pages)
        /\ \A i \in 1..Len(pages) :
              st[pages[i].title] = [revid |-> pages[i].revid,
                                    timestamp |-> pages[i].timestamp]
        /\ \A t \in (DOMAIN PrevEntries) \ TitlesOf(pages) :
              /\ t \notin DOMAIN st
              /\ \A k \in 1..Len(stagingIndex.chunks) :
                    stagingIndex.chunks[k].page_title # t

\* An incremental build whose fetch lacks a page the previous index has
\* chunks of, next to a page it still has.
C10_Witness ==
    /\ stage = "written"
    /\ ~full_rebuild
    /\ pages # <<>>
    /\ \E t \in (DOMAIN PrevEntries) \ TitlesOf(pages) :
          \E j \in 1..Len(currentIndex.chunks) : currentIndex.chunks[j].page_title = t
    /\ stagingIndex.wiki_state = new_state

\* The chunk list in current/ when the build runs: the previous index's chunks.
PrevChunks ==
    IF "chunks.jsonl" \in currentIndex.present THEN currentIndex.chunks ELSE <<>>

\* The chunks of the list cs that belong to page t, in the list's order.
ChunksOfTitle(cs, t) == SelectSeq(cs, LAMBDA chunk : chunk.page_title = t)

\* The number of chunks at the head of all_chunks that were not produced by
\* the chunker in this build.
KeptCount == Len(all_chunks) - Len(ChunkPages(changed_pages))

(***************************************************************************)
(* C11: in an incremental build, a chunk of the previous index is among    *)
(* the chunks kept at the head of the merged list exactly when its title   *)
(* is in the previous and in the new page state and is not the title of a  *)
(* changed page; the kept chunks are chunks of the previous index; and the *)
(* merged list's chunks of a changed page are the chunker's output for the *)
(* fetched page.                                                           *)
(***************************************************************************)
C11_CarryOverPolicy ==
    (stage \in {"merged", "embedded", "written"} /\ ~full_rebuild) =>
        /\ KeptCount >= 0
        /\ \A j \in 1..Len(PrevChunks) :
              (\E i \in 1..KeptCount : all_chunks[i] = PrevChunks[j])
              <=> /\ PrevChunks[j].page_title \in DOMAIN PrevEntries
                  /\ PrevChunks[j].page_title \in DOMAIN new_state.pages
                  /\ PrevChunks[j].page_title \notin TitlesOf(changed_pages)
        /\ \A i \in 1..KeptCount :
              \E j \in 1..Len(PrevChunks) : all_chunks[i] = PrevChunks[j]
        /\ \A k \in 1..Len(changed_pages) :
              ChunksOfTitle(all_chunks, changed_pages[k].title)
                 = chunk_text(changed_pages[k])

\* An incremental build that keeps the chunks of one page and replaces the
\* chunks the previous index has of a page whose revision changed.
C11_Witness ==
    /\ stage = "merged"
    /\ ~full_rebuild
    /\ KeptCount > 0
    /\ \E k \in 1..Len(changed_pages) :
          /\ ChunksOfTitle(PrevChunks, changed_pages[k].title) # <<>>
          /\ ChunksOfTitle(PrevChunks, changed_pages[k].title)
                # chunk_text(changed_pages[k])

\* The position of the page titled t in the fetched list.
FetchPos(t) == CHOOSE i \in 1..Len(pages) : pages[i].title = t

\* The chunk at position i of all_chunks was carried over.
Kept(i) == all_chunks[i].page_title \notin TitlesOf(changed_pages)

(***************************************************************************)
(* C12: in the merged list the carried-over chunks come first, in the      *)
(* order they had in the previous index; the chunks of the changed pages   *)
(* follow, page by page in fetch order, each page's in chunk_index order.  *)
(***************************************************************************)
C12_MergeOrder ==
    stage \in {"merged", "embedded", "written"} =>
        \A i, k \in 1..Len(all_chunks) :
           i < k =>
              /\ Kept(k) => Kept(i)
              /\ (Kept(i) /\ Kept(k)) =>
                    \E a, b \in 1..Len(PrevChunks) :
                       /\ a < b
                       /\ PrevChunks[a] = all_chunks[i]
                       /\ PrevChunks[b] = all_chunks[k]
              /\ (~Kept(i) /\ ~Kept(k)) =>
                    \/ FetchPos(all_chunks[i].page_title)
                          < FetchPos(all_chunks[k].page_title)
                    \/ /\ all_chunks[i].page_title = all_chunks[k].page_title
                       /\ all_chunks[i].chunk_index < all_chunks[k].chunk_index

\* A merged list with two carried-over chunks in front of a fresh one.
C12_Witness ==
    /\ stage = "merged"
    /\ Len(all_chunks) >= 3
    /\ Kept(1)
    /\ Kept(2)
    /\ ~Kept(Len(all_chunks))

(***************************************************************************)
(* The writes to staging/, file by file and system call by system call.    *)
(* A file holds nothing ("absent"), the whole content this build wrote     *)
(* ("new"), the whole content an earlier build wrote ("old"), or the part  *)
(* of a content written so far ("partial"; a file just opened for writing  *)
(* is empty, which is a part of the content).                              *)
(***************************************************************************)
othersWrite == <<lockVars, fsVars, mergeVars, histVars, readVars, searchVars, auxVars>>

\* Storage.save_chunks and Storage.save_embeddings write to path + '.tmp'
\* and rename; main dumps wiki_state.json and metadata.json itself.
UsesTmp(f) == f \in {"chunks.jsonl", "embeddings.npy"}

\* The file being written.
WriteTarget == FileOrder[writeStep.file]

\* The step after the file being written is complete.
NextFile ==
    IF writeStep.file = Len(FileOrder)
    THEN [file |-> writeStep.file, phase |-> "done"]
    ELSE [file |-> writeStep.file + 1, phase |-> "open"]

\* except Exception as write_err: ... return
WriteFailed == [file |-> writeStep.file, phase |-> "failed"]

\* A build reaches its writes; what the builds before it left in staging/
\* is still there.
StartWrites ==
    /\ writeStep.phase \in {"idle", "done", "failed"}
    /\ writeStep' = [file |-> 1, phase |-> "open"]
    /\ stagingFile' = [f \in Files |->
                         IF stagingFile[f] = "new" THEN "old" ELSE stagingFile[f]]
    /\ UNCHANGED <<tmpFile, othersWrite>>

\* open(tmp_path, 'w') and np.save's open of the temporary path, or
\* open(staging_path / name, 'w'): the file opened is created or truncated.
OpenFile ==
    /\ writeStep.phase = "open"
    /\ \/ /\ writeStep' = [writeStep EXCEPT !.phase = "write"]
          /\ IF UsesTmp(WriteTarget)
             THEN /\ tmpFile' = [tmpFile EXCEPT ![WriteTarget] = "partial"]
                  /\ UNCHANGED stagingFile
             ELSE /\ stagingFile' = [stagingFile EXCEPT ![WriteTarget] = "partial"]
                  /\ UNCHANGED tmpFile
       \/ /\ writeStep' = WriteFailed
          /\ UNCHANGED <<stagingFile, tmpFile>>
    /\ UNCHANGED othersWrite

\* The content is written to the open file and the file closed, or the
\* writing raises partway.
WriteFile ==
    /\ writeStep.phase = "write"
    /\ \/ /\ IF UsesTmp(WriteTarget)
             THEN /\ tmpFile' = [tmpFile EXCEPT ![WriteTarget] = "complete"]
                  /\ UNCHANGED stagingFile
                  /\ writeStep' = [writeStep EXCEPT !.phase = "replace"]
             ELSE /\ stagingFile' = [stagingFile EXCEPT ![WriteTarget] = "new"]
                  /\ UNCHANGED tmpFile
                  /\ writeStep' = NextFile
       \/ /\ writeStep' = WriteFailed
          /\ UNCHANGED <<stagingFile, tmpFile>>
    /\ UNCHANGED othersWrite

\* Path(tmp_path).replace(path)
ReplaceFile ==
    /\ writeStep.phase = "replace"
    /\ \/ /\ stagingFile' = [stagingFile EXCEPT ![WriteTarget] = "new"]
          /\ tmpFile' = [tmpFile EXCEPT ![WriteTarget] = "absent"]
          /\ writeStep' = NextFile
       \/ /\ writeStep' = WriteFailed
          /\ UNCHANGED <<stagingFile, tmpFile>>
    /\ UNCHANGED othersWrite

(***************************************************************************)
(* SpecWrite: the write stage of build after build, each write able to     *)
(* raise.                                                                  *)
(***************************************************************************)
InitWriteSpec ==
    /\ now = 0
    /\ timeout = DefaultTimeout
    /\ lockFile = NoFile
    /\ pc = [p \in Procs |-> "idle"]
    /\ acqCall = [p \in Procs |-> NoCall]
    /\ InitProcs

NextWrite ==
    \/ StartWrites
    \/ OpenFile
    \/ WriteFile
    \/ ReplaceFile

SpecWrite == InitWriteSpec /\ [][NextWrite]_vars

(***************************************************************************)
(* C13: no file of staging/ that has an artifact's final name ever holds   *)
(* partially written content.                                              *)
(***************************************************************************)
C13_NoPartialArtifact ==
    \A f \in Files : stagingFile[f] # "partial"

(***************************************************************************)
(* The read path: the chat process syncs its local cache from current/     *)
(* file by file and loads chunks and embeddings into memory, while a       *)
(* build's swap removes and refills current/ file by file.  A file's       *)
(* content is the version (the build's number) that wrote it.              *)
(***************************************************************************)
othersRead == <<lockVars, mergeVars, writeVars, histVars, searchVars, auxVars, archive, myRun,
                latest, preLive, swapFault, rollbackFault>>

builderVars == <<live, staging, runs, swapStep>>

chatVars == <<chat, net_info, cache_info, cache, memory, answered>>

\* chat.py's INDEX_FILES, in its order.
INDEX_FILES == <<"chunks.jsonl", "embeddings.npy", "metadata.json", "wiki_state.json">>

\* A directory holding the index of version v.
Version(v) == [exists |-> TRUE, files |-> [f \in Files |-> v]]

\* The first file in listing order that d has (has = TRUE) or lacks.
FirstFile(d, has) ==
    FileOrder[CHOOSE i \in 1..Len(FileOrder) :
                 /\ (d.files[FileOrder[i]] # 0) = has
                 /\ \A j \in 1..(i - 1) : (d.files[FileOrder[j]] # 0) # has]

\* A build has staged version runs + 1 and enters its swap.
BeginSwap ==
    /\ runs' = runs + 1
    /\ staging' = Version(runs + 1)
    /\ swapStep' = IF live.exists THEN "remove" ELSE "copy"
    /\ UNCHANGED live

\* The build of some process reaches its swap.
SwapBegin ==
    /\ swapStep = "idle"
    /\ runs < MaxRuns
    /\ BeginSwap
    /\ quietSync' = FALSE
    /\ UNCHANGED <<chatVars, othersRead>>

\* shutil.rmtree(current_path): one unlink, or the rmdir after the last.
SwapRemoveFile ==
    /\ swapStep = "remove"
    /\ IF Present(live) = {}
       THEN /\ live' = NoDir
            /\ swapStep' = "copy"
       ELSE /\ live' = [live EXCEPT !.files[FirstFile(live, TRUE)] = 0]
            /\ UNCHANGED swapStep
    /\ quietSync' = FALSE
    /\ UNCHANGED <<staging, runs, chatVars, othersRead>>

\* shutil.copytree(staging_path, current_path): the makedirs, or the copy of
\* one file; the swap is over after the last.
SwapCopyFile ==
    /\ swapStep = "copy"
    /\ IF ~live.exists
       THEN /\ live' = EmptyDir
            /\ UNCHANGED swapStep
       ELSE /\ live' = [live EXCEPT !.files[FirstFile(live, FALSE)] =
                                       staging.files[FirstFile(live, FALSE)]]
            /\ swapStep' = IF Present(live') = Files THEN "idle" ELSE "copy"
    /\ quietSync' = FALSE
    /\ UNCHANGED <<staging, runs, chatVars, othersRead>>

\* A mutant of AfterSync: /update reloads the index as /refresh does.
AfterSyncAs ==
    [cmd |-> chat.cmd,
     step |-> CASE chat.cmd = "startup" -> "load"
                [] chat.cmd = "refresh" -> "reload"
                [] chat.cmd = "update" -> "reload",
     idx |-> 1]

\* The step after sync_local_cache has returned: startup checks the cache
\* and loads, /refresh loads, /update goes back to the prompt.
AfterSync ==
    [cmd |-> chat.cmd,
     step |-> CASE chat.cmd = "startup" -> "load"
                [] chat.cmd = "refresh" -> "reload"
                [] chat.cmd = "update" -> "prompt",
     idx |-> 1]

\* chat.py's main starts: sync_local_cache(config)
ChatStart ==
    /\ chat.step = "off"
    /\ chat' = [cmd |-> "startup", step |-> "net_info", idx |-> 1]
    /\ UNCHANGED <<net_info, cache_info, cache, memory, answered, builderVars,
                   othersRead, quietSync>>

\* net_info = load_json(net_meta): {} when the file cannot be read.  The
\* first access of sync_local_cache to current/.
SyncNetInfo ==
    /\ chat.step = "net_info"
    /\ net_info' = IF live.exists THEN live.files["metadata.json"] ELSE 0
    /\ chat' = [chat EXCEPT !.step = "cache_info"]
    /\ quietSync' = (swapStep = "idle")
    /\ UNCHANGED <<cache_info, cache, memory, answered, builderVars, othersRead>>

\* cache_info = load_json(cache_meta)
\* if net_info.get('version') != cache_info.get('version'): ... else: ...
SyncCacheInfo ==
    /\ chat.step = "cache_info"
    /\ IF net_info # cache["metadata.json"]
       THEN /\ cache_info' = cache["metadata.json"]
            /\ chat' = [chat EXCEPT !.step = "copy", !.idx = 1]
            /\ UNCHANGED net_info
       ELSE /\ cache_info' = 0
            /\ net_info' = 0
            /\ chat' = AfterSync
    /\ UNCHANGED <<cache, memory, answered, builderVars, othersRead, quietSync>>

\* for fname in INDEX_FILES: if src.exists(): shutil.copy2(src, dst)
SyncCopy ==
    /\ chat.step = "copy"
    /\ LET f == INDEX_FILES[chat.idx] IN
          cache' = IF live.exists /\ live.files[f] # 0
                   THEN [cache EXCEPT ![f] = live.files[f]]
                   ELSE cache
    /\ IF chat.idx = Len(INDEX_FILES)
       THEN /\ chat' = AfterSync
            /\ net_info' = 0
            /\ cache_info' = 0
       ELSE /\ chat' = [chat EXCEPT !.idx = chat.idx + 1]
            /\ UNCHANGED <<net_info, cache_info>>
    /\ UNCHANGED <<memory, answered, builderVars, othersRead, quietSync>>

\* Startup: missing_files; chunks = storage.load_chunks();
\* embeddings = storage.load_embeddings()
StartupLoad ==
    /\ chat.step = "load"
    /\ memory' = IF \E f \in Files : cache[f] = 0
                 THEN NoMemory
                 ELSE [chunks |-> cache["chunks.jsonl"],
                       embeddings |-> cache["embeddings.npy"]]
    /\ chat' = [chat EXCEPT !.step = "prompt"]
    /\ UNCHANGED <<net_info, cache_info, cache, answered, builderVars, othersRead, quietSync>>

\* /refresh: chunks = storage.load_chunks(); embeddings =
\* storage.load_embeddings(); a load of a missing file raises and the
\* handler leaves the locals not yet assigned as they were.
RefreshLoad ==
    /\ chat.step = "reload"
    /\ memory' = IF cache["chunks.jsonl"] = 0
                 THEN memory
                 ELSE [chunks |-> cache["chunks.jsonl"],
                       embeddings |-> IF cache["embeddings.npy"] = 0
                                      THEN memory.embeddings
                                      ELSE cache["embeddings.npy"]]
    /\ chat' = [chat EXCEPT !.step = "prompt"]
    /\ UNCHANGED <<net_info, cache_info, cache, answered, builderVars, othersRead, quietSync>>

\* A question at the prompt: scores from embeddings, results from chunks.
Query ==
    /\ chat.step = "prompt"
    /\ memory.chunks # 0
    /\ memory.embeddings # 0
    /\ answered' = memory
    /\ UNCHANGED <<chat, net_info, cache_info, cache, memory, builderVars, othersRead, quietSync>>

\* /refresh at the prompt: sync_local_cache(config), then the loads.
RefreshCmd ==
    /\ chat.step = "prompt"
    /\ chat' = [cmd |-> "refresh", step |-> "net_info", idx |-> 1]
    /\ UNCHANGED <<net_info, cache_info, cache, memory, answered, builderVars,
                   othersRead, quietSync>>

\* /update at the prompt: subprocess.run of update_index.py.  The build
\* swaps, or returns at once (the lock is held, or a stage fails); either
\* way its return code is 0 and sync_local_cache follows.
UpdateCmd ==
    /\ chat.step = "prompt"
    /\ IF swapStep = "idle" /\ runs < MaxRuns
       THEN /\ BeginSwap
            /\ quietSync' = FALSE
            /\ chat' = [cmd |-> "update", step |-> "update_wait", idx |-> 1]
       ELSE /\ UNCHANGED <<builderVars, quietSync>>
            /\ chat' = [cmd |-> "update", step |-> "net_info", idx |-> 1]
    /\ UNCHANGED <<net_info, cache_info, cache, memory, answered, othersRead>>

\* subprocess.run returns when the build has ended.
UpdateReturn ==
    /\ chat.step = "update_wait"
    /\ swapStep = "idle"
    /\ chat' = [chat EXCEPT !.step = "net_info"]
    /\ UNCHANGED <<net_info, cache_info, cache, memory, answered, builderVars,
                   othersRead, quietSync>>

(***************************************************************************)
(* SpecRead: one chat process and the swaps of up to MaxRuns builds, in    *)
(* every interleaving of their file operations.                            *)
(***************************************************************************)
InitReadSpec ==
    /\ now = 0
    /\ timeout = DefaultTimeout
    /\ lockFile = NoFile
    /\ pc = [p \in Procs |-> "idle"]
    /\ acqCall = [p \in Procs |-> NoCall]
    /\ InitProcs

NextRead ==
    \/ SwapBegin
    \/ SwapRemoveFile
    \/ SwapCopyFile
    \/ ChatStart
    \/ SyncNetInfo
    \/ SyncCacheInfo
    \/ SyncCopy
    \/ StartupLoad
    \/ RefreshLoad
    \/ Query
    \/ RefreshCmd
    \/ UpdateCmd
    \/ UpdateReturn

SpecRead == InitReadSpec /\ [][NextRead]_vars

(***************************************************************************)
(* C17: whenever the chat process is back at its prompt, the four files of *)
(* its cache all belong to one version (or none is there), and so do the   *)
(* chunks and the embeddings it has in memory.                             *)
(***************************************************************************)
C17_ReaderSeesOneVersion ==
    chat.step = "prompt" =>
        /\ \A f, g \in Files : cache[f] = cache[g]
        /\ memory.chunks = memory.embeddings

(***************************************************************************)
(* C18: the in-memory pair changes only in the loads of the startup and of *)
(* /refresh -- no step of a swap, of a sync or of /update changes it --    *)
(* and a query is answered from the pair in memory, which it leaves as it  *)
(* is.                                                                     *)
(***************************************************************************)
C18_SnapshotUntilRefresh ==
    [][/\ memory' # memory =>
             /\ chat.step \in {"load", "reload"}
             /\ chat.cmd \in {"startup", "refresh"}
       /\ answered' # answered => (answered' = memory /\ memory' = memory)]_vars

\* The chat process loaded version 1 and answered from it; /update has since
\* published version 2 and synced it into the cache; memory is still
\* version 1.
C18_Witness ==
    /\ chat = [cmd |-> "update", step |-> "prompt", idx |-> 1]
    /\ memory = [chunks |-> 1, embeddings |-> 1]
    /\ answered = memory
    /\ live = Version(2)
    /\ \A f \in Files : cache[f] = 2

(***************************************************************************)
(* SpecRetain: the build process of SpecBuild on an installation that      *)
(* earlier runs have left: current/ holds a complete index and archive/    *)
(* holds up to RetentionCount entries with earlier names.                  *)
(***************************************************************************)
\* The content token of the index the earlier runs installed.
Installed == MaxRuns + 1

\* The archives earlier successful runs can have left before time
\* RetentionCount: any set of earlier names, each a complete index.
EarlierArchives ==
    {[exists |-> S # {},
      entries |-> [n \in Names |-> IF n \in S THEN Version(Installed) ELSE NoDir]] :
        S \in SUBSET (0..(RetentionCount - 1))}

InitRetain ==
    /\ now = RetentionCount
    /\ timeout = DefaultTimeout
    /\ lockFile \in {NoFile, LockRecord(Foreign, 0)}
    /\ pc = [p \in Procs |-> "idle"]
    /\ acqCall = [p \in Procs |-> NoCall]
    /\ live = Version(Installed)
    /\ staging = EmptyDir
    /\ archive \in EarlierArchives
    /\ runs = 0
    /\ myRun = [p \in Procs |-> 0]
    /\ latest = [p \in Procs |-> 0]
    /\ preLive = [p \in Procs |-> NoDir]
    /\ preArchive = [p \in Procs |-> archive]
    /\ swapFault = [p \in Procs |-> "none"]
    /\ rollbackFault = [p \in Procs |-> FALSE]
    /\ InitData
    /\ lockInfo = [p \in Procs |-> NoInfo]
    /\ info = [p \in Procs |-> NoInfo]
    /\ fdValid = [p \in Procs |-> FALSE]
    /\ relCtx = [p \in Procs |-> "site"]
    /\ outcome = [p \in Procs |-> "running"]
    /\ staleTaken = FALSE

SpecRetain == InitRetain /\ [][NextBuild]_vars

(***************************************************************************)
(* C19: whenever a run of main has returned, archive/ holds at most        *)
(* RetentionCount entries, and they are the most recently named of the     *)
(* entries that were there when the run started and the one it added.      *)
(***************************************************************************)
C19_ArchiveBounded ==
    pc[1] = "returned" =>
        /\ Cardinality(ArchiveNames(archive)) <= RetentionCount
        /\ \A n \in ArchiveNames(archive), m \in ArchiveNames(preArchive[1]) :
              m > n => m \in ArchiveNames(archive)

(***************************************************************************)
(* The search: retriever.search_chunks(query_emb, chunk_embs, chunks,      *)
(* top_k, threshold).  Embeddings are vectors of dimension 2 with          *)
(* components 0 and 1; a chunk is its id, and the chunk list of a call     *)
(* holds the ids 1, 2, ... in order, so that chunk i is the chunk at the   *)
(* position of row i.                                                      *)
(***************************************************************************)
\* The embedding vectors.
Vectors == {<<a, b>> : a \in 0..1, b \in 0..1}

Dot(u, v) == u[1] * v[1] + u[2] * v[2]

\* cosine_similarity's entry for row e: dot / denom, with denom set to 1e-12
\* where it is 0 (the dot product is 0 there, and so is the score).  The
\* cosine of two vectors with components 0 and 1 is 0, 1/2, sqrt(1/2) or 1;
\* the score is kept as 4 * cosine^2, which orders as the cosine does.
Score(q, e) ==
    IF Dot(q, q) * Dot(e, e) = 0
    THEN 0
    ELSE (4 * Dot(q, e) * Dot(q, e)) \div (Dot(q, q) * Dot(e, e))

\* The thresholds of a call, on the scale of Score: each score, and one
\* above every score.
Thresholds == {0, 1, 2, 4, 5}

\* The matrices of up to MaxRows rows.
Matrices == UNION {[1..n -> Vectors] : n \in 0..MaxRows}

\* np.argsort(scores): an ordering of the row numbers by ascending score;
\* the order of rows of equal score is the sort's.
ArgSort(sc) ==
    {p \in [1..Len(sc) -> 1..Len(sc)] :
        /\ \A i, j \in 1..Len(sc) : i # j => p[i] # p[j]
        /\ \A i, j \in 1..Len(sc) : i < j => sc[p[i]] <= sc[p[j]]}

\* A mutant of Reversed: the [::-1] is left out.
ReversedAs(p) == p

\* order[::-1]
Reversed(p) == [i \in 1..Len(p) |-> p[Len(p) + 1 - i]]

\* The lengths of the chunk list beside a matrix of rows rows: one chunk
\* short, aligned, one chunk more.
ChunkCounts(rows) == {n \in {rows - 1, rows, rows + 1} : n >= 0}

searchOthers == <<lockVars, fsVars, mergeVars, histVars, writeVars, readVars, auxVars>>

\* if chunk_embs is None or len(chunk_embs) == 0 or not chunks: return []
\* scores = cosine_similarity(query_emb, chunk_embs)
\* order = np.argsort(scores)[::-1]; results = []
SearchCall ==
    /\ searchPc = "call"
    /\ IF Len(chunk_embs) = 0 \/ Len(chunkList) = 0
       THEN /\ searchPc' = "returned"
            /\ UNCHANGED <<scores, order>>
       ELSE /\ searchPc' = "loop"
            /\ scores' = [i \in 1..Len(chunk_embs) |-> Score(query_emb, chunk_embs[i])]
            /\ \E p \in ArgSort(scores') : order' = Reversed(p)
    /\ results' = <<>>
    /\ UNCHANGED <<query_emb, chunk_embs, chunkList, top_k, threshold, searchOthers>>

\* One pass of `for idx in order:` that does not break: the row's score is
\* tested against threshold and its chunk appended; chunks[int(idx)] raises
\* IndexError when the chunk list is shorter, and the row is skipped.
SearchLoop ==
    /\ searchPc = "loop"
    /\ order # <<>>
    /\ Len(results) < top_k
    /\ LET idx == Head(order) IN
          results' = IF scores[idx] >= threshold /\ idx <= Len(chunkList)
                     THEN Append(results, [chunk |-> chunkList[idx], score |-> scores[idx]])
                     ELSE results
    /\ order' = Tail(order)
    /\ UNCHANGED <<searchPc, query_emb, chunk_embs, chunkList, top_k, threshold, scores,
                   searchOthers>>

\* if len(results) >= top_k: break   /  the loop is exhausted;  return results
SearchReturn ==
    /\ searchPc = "loop"
    /\ order = <<>> \/ Len(results) >= top_k
    /\ searchPc' = "returned"
    /\ UNCHANGED <<query_emb, chunk_embs, chunkList, top_k, threshold, scores, order,
                   results, searchOthers>>

(***************************************************************************)
(* SpecSearch: one call of search_chunks on any query, any matrix of up to *)
(* MaxRows rows, a chunk list as long as the matrix, shorter or longer by   *)
(* one, any top_k up to MaxRows and any threshold.                         *)
(***************************************************************************)
InitSearchSpec ==
    /\ now = 0
    /\ timeout = DefaultTimeout
    /\ lockFile = NoFile
    /\ pc = [p \in Procs |-> "idle"]
    /\ acqCall = [p \in Procs |-> NoCall]
    /\ InitFs
    /\ InitIndexData
    /\ lockInfo = [p \in Procs |-> NoInfo]
    /\ info = [p \in Procs |-> NoInfo]
    /\ fdValid = [p \in Procs |-> FALSE]
    /\ relCtx = [p \in Procs |-> "site"]
    /\ outcome = [p \in Procs |-> "running"]
    /\ staleTaken = FALSE
    /\ InitAux("none")
    /\ searchPc = "call"
    /\ query_emb \in Vectors
    /\ chunk_embs \in Matrices
    /\ \E n \in ChunkCounts(Len(chunk_embs)) : chunkList = [i \in 1..n |-> i]
    /\ top_k \in 0..MaxRows
    /\ threshold \in Thresholds
    /\ scores = <<>>
    /\ order = <<>>
    /\ results = <<>>

NextSearch ==
    \/ SearchCall
    \/ SearchLoop
    \/ SearchReturn

SpecSearch == InitSearchSpec /\ [][NextSearch]_vars

\* The chunks of the results.
Returned == {results[i].chunk : i \in 1..Len(results)}

\* The chunks that have an embedding row and are not among the results.
Omitted == {c \in 1..Len(chunkList) : c <= Len(chunk_embs) /\ c \notin Returned}

(***************************************************************************)
(* C20: search_chunks returns at most top_k pairs, in descending order of  *)
(* score; every returned score is at least threshold; each returned chunk  *)
(* is a chunk of the list and its score is the score of the row at its     *)
(* position; and no omitted chunk has a score that is at least threshold   *)
(* and higher than a returned score.                                       *)
(***************************************************************************)
C20_SearchChunks ==
    searchPc = "returned" =>
        /\ Len(results) <= top_k
        /\ \A i, j \in 1..Len(results) : i < j => results[i].score >= results[j].score
        /\ \A i \in 1..Len(results) : results[i].score >= threshold
        /\ \A i \in 1..Len(results) :
              /\ results[i].chunk \in 1..Len(chunkList)
              /\ results[i].chunk <= Len(chunk_embs)
              /\ results[i].score = Score(query_emb, chunk_embs[results[i].chunk])
        /\ \A c \in Omitted : \A i \in 1..Len(results) :
              ~(/\ Score(query_emb, chunk_embs[c]) >= threshold
                /\ Score(query_emb, chunk_embs[c]) > results[i].score)

\* A call that stopped at top_k, with results of different scores and with a
\* chunk left out whose score is at least threshold.
C20_Witness ==
    /\ searchPc = "returned"
    /\ Len(results) = top_k
    /\ top_k >= 1
    /\ \E c \in Omitted : Score(query_emb, chunk_embs[c]) >= threshold
    /\ \E i, j \in 1..Len(results) : results[i].score > results[j].score

(***************************************************************************)
(* C21: two results of equal score come in ascending order of their        *)
(* position in the index, and a chunk left out at the top_k cut whose      *)
(* score equals a returned score comes after that result in the index.     *)
(***************************************************************************)
C21_TieBreakAscending ==
    searchPc = "returned" =>
        /\ \A i, j \in 1..Len(results) :
              (i < j /\ results[i].score = results[j].score)
                  => results[i].chunk < results[j].chunk
        /\ \A c \in Omitted : \A i \in 1..Len(results) :
              (/\ Score(query_emb, chunk_embs[c]) >= threshold
               /\ Score(query_emb, chunk_embs[c]) = results[i].score)
                  => results[i].chunk < c

(***************************************************************************)
(* The chunker: chunker.chunk_text(page, chunk_size, overlap), character   *)
(* by character.  A text is a sequence of characters: a letter, a blank,   *)
(* a newline and a full stop are the characters the splitting tells apart. *)
(***************************************************************************)
NL == "\n"

Chars == {"a", " ", NL, "."}

\* str.strip()'s and the regex \s's whitespace.
IsSpace(c) == c \in {" ", NL}

\* The characters of [.!?].
SentenceEnds == {".", "!", "?"}

\* The number of characters from position i on that satisfy... : the blanks
\* and newlines (space = TRUE) or the newlines only.
RECURSIVE RunLen(_, _, _)
RunLen(s, i, space) ==
    IF i <= Len(s) /\ (IF space THEN IsSpace(s[i]) ELSE s[i] = NL)
    THEN 1 + RunLen(s, i + 1, space)
    ELSE 0

\* A mutant of Strip: the part is emitted as it is.
StripAs(s) == s

\* str.strip()
Strip(s) ==
    LET inner == {i \in 1..Len(s) : ~IsSpace(s[i])} IN
    IF inner = {}
    THEN <<>>
    ELSE SubSeq(s, CHOOSE i \in inner : \A j \in inner : i <= j,
                   CHOOSE i \in inner : \A j \in inner : j <= i)

\* re.split(r'\n{2,}', text) from position i on, cur the piece begun.
RECURSIVE SplitParagraphs(_, _, _)
SplitParagraphs(s, i, cur) ==
    IF i > Len(s)
    THEN <<cur>>
    ELSE IF RunLen(s, i, FALSE) >= 2
         THEN <<cur>> \o SplitParagraphs(s, i + RunLen(s, i, FALSE), <<>>)
         ELSE SplitParagraphs(s, i + 1, Append(cur, s[i]))

\* re.split(r'(?<=[.!?])\s+', text) from position i on, cur the piece begun.
RECURSIVE SplitRegex(_, _, _)
SplitRegex(s, i, cur) ==
    IF i > Len(s)
    THEN <<cur>>
    ELSE IF i > 1 /\ s[i - 1] \in SentenceEnds /\ IsSpace(s[i])
         THEN <<cur>> \o SplitRegex(s, i + RunLen(s, i, TRUE), <<>>)
         ELSE SplitRegex(s, i + 1, Append(cur, s[i]))

\* _split_sentences(text)
split_sentences(text) ==
    IF Len(SplitRegex(text, 1, <<>>)) <= 1 THEN <<text>> ELSE SplitRegex(text, 1, <<>>)

\* The loop's locals: the chunks so far, the buffer and the next index.
Locals(cs, cur, i) == [chunks |-> cs, current |-> cur, idx |-> i]

\* _emit(part), on the locals st
Emit(st, title, part) ==
    IF Strip(part) = <<>>
    THEN st
    ELSE Locals(Append(st.chunks,
                       [id |-> <<title, st.idx>>,
                        text |-> Strip(part),
                        page_title |-> title,
                        chunk_index |-> st.idx,
                        char_count |-> Len(Strip(part))]),
                st.current, st.idx + 1)

\* tail = current[-overlap:] if overlap and len(current) > overlap else ''
OverlapTail(cur, ov) ==
    IF ov # 0 /\ Len(cur) > ov THEN SubSeq(cur, Len(cur) - ov + 1, Len(cur)) ELSE <<>>

\* The branch of a piece (a paragraph with sep two newlines, a sentence with
\* sep a blank) that is added to the buffer: lines 70-81 and 105-113.
Accumulate(st, title, piece, sep, size, ov) ==
    IF st.current = <<>>
    THEN Locals(st.chunks, piece, st.idx)
    ELSE IF Len(st.current) + Len(sep) + Len(piece) > size
         THEN Locals(Emit(st, title, st.current).chunks,
                     Strip(OverlapTail(st.current, ov) \o sep \o piece),
                     Emit(st, title, st.current).idx)
         ELSE Locals(st.chunks, Strip(st.current \o sep \o piece), st.idx)

\* while start < len(long_text): ... _emit(long_text[start:end]);
\* start += chunk_size - overlap
RECURSIVE SliceLoop(_, _, _, _, _, _)
SliceLoop(st, title, long_text, start, size, ov) ==
    IF start >= Len(long_text)
    THEN st
    ELSE SliceLoop(Emit(st, title,
                        SubSeq(long_text, start + 1,
                               IF start + size < Len(long_text)
                               THEN start + size ELSE Len(long_text))),
                   title, long_text, start + size - ov, size, ov)

\* for s in sentences: s = s.strip(); if not s: continue; ...
RECURSIVE SentenceLoop(_, _, _, _, _)
SentenceLoop(st, title, sentences, size, ov) ==
    IF sentences = <<>>
    THEN st
    ELSE SentenceLoop(IF Strip(Head(sentences)) = <<>>
                      THEN st
                      ELSE Accumulate(st, title, Strip(Head(sentences)), <<" ">>, size, ov),
                      title, Tail(sentences), size, ov)

\* The paragraph was sliced: the sentence split gave one piece.
Sliced(para, size) ==
    Len(para) > size /\ Len(split_sentences(para)) = 1

\* One pass of `for para in paragraphs:` (lines 63-113), para not yet
\* stripped.
ParagraphStep(st, title, para, size, ov) ==
    IF Strip(para) = <<>>
    THEN st
    ELSE IF Len(Strip(para)) <= size
         THEN Accumulate(st, title, Strip(para), <<NL, NL>>, size, ov)
         ELSE IF Sliced(Strip(para), size)
              THEN SliceLoop(IF st.current # <<>>
                             THEN Locals(Emit(st, title, st.current).chunks, <<>>,
                                         Emit(st, title, st.current).idx)
                             ELSE st,
                             title, Strip(para), 0, size, ov)
              ELSE SentenceLoop(st, title, split_sentences(Strip(para)), size, ov)

chunkOthers == <<lockVars, fsVars, mergeVars, histVars, writeVars, readVars, searchVars,
                 storeVars, loopVars, retryVars, dlVars, faissVars, sliceVars, mmrVars>>

\* A mutant of ChunkCall: idx is not set back at the call.
ChunkCallAs ==
    /\ chunkPc = "call"
    /\ ckCalls' = ckCalls + 1
    /\ IF ckPage.content = <<>>
       THEN /\ chunkPc' = "returned"
            /\ ckChunks' = <<>>
            /\ UNCHANGED <<ckParagraphs, ckCurrent, ckIdx>>
       ELSE /\ chunkPc' = "loop"
            /\ ckParagraphs' = SplitParagraphs(ckPage.content, 1, <<>>)
            /\ ckChunks' = <<>>
            /\ ckCurrent' = <<>>
            /\ UNCHANGED ckIdx
    /\ UNCHANGED <<ckPage, chunk_size, overlap, ckFirst, chunkOthers>>

\* text = page.get('content', '') or ''; if not text: return []
\* paragraphs = re.split(r'\n{2,}', text); chunks = []; current = ''; idx = 0
ChunkCall ==
    /\ chunkPc = "call"
    /\ ckCalls' = ckCalls + 1
    /\ IF ckPage.content = <<>>
       THEN /\ chunkPc' = "returned"
            /\ ckChunks' = <<>>
            /\ UNCHANGED <<ckParagraphs, ckCurrent, ckIdx>>
       ELSE /\ chunkPc' = "loop"
            /\ ckParagraphs' = SplitParagraphs(ckPage.content, 1, <<>>)
            /\ ckChunks' = <<>>
            /\ ckCurrent' = <<>>
            /\ ckIdx' = 0
    /\ UNCHANGED <<ckPage, chunk_size, overlap, ckFirst, chunkOthers>>

\* for para in paragraphs: one pass
ChunkParagraph ==
    /\ chunkPc = "loop"
    /\ ckParagraphs # <<>>
    /\ LET st == ParagraphStep(Locals(ckChunks, ckCurrent, ckIdx), ckPage.title,
                               Head(ckParagraphs), chunk_size, overlap) IN
          /\ ckChunks' = st.chunks
          /\ ckCurrent' = st.current
          /\ ckIdx' = st.idx
    /\ ckParagraphs' = Tail(ckParagraphs)
    /\ UNCHANGED <<chunkPc, ckPage, chunk_size, overlap, ckCalls, ckFirst, chunkOthers>>

\* if current: _emit(current);  return chunks
ChunkReturn ==
    /\ chunkPc = "loop"
    /\ ckParagraphs = <<>>
    /\ LET st == IF ckCurrent # <<>>
                 THEN Emit(Locals(ckChunks, ckCurrent, ckIdx), ckPage.title, ckCurrent)
                 ELSE Locals(ckChunks, ckCurrent, ckIdx) IN
          /\ ckChunks' = st.chunks
          /\ ckIdx' = st.idx
          /\ ckFirst' = IF ckCalls = 1 THEN st.chunks ELSE ckFirst
    /\ chunkPc' = "returned"
    /\ UNCHANGED <<ckPage, chunk_size, overlap, ckParagraphs, ckCurrent, ckCalls,
                   chunkOthers>>

\* The caller chunks the same page with the same parameters once more.
ChunkAgain ==
    /\ chunkPc = "returned"
    /\ ckCalls < MaxCalls
    /\ chunkPc' = "call"
    /\ ckFirst' = IF ckCalls = 1 THEN ckChunks ELSE ckFirst
    /\ UNCHANGED <<ckPage, chunk_size, overlap, ckParagraphs, ckCurrent, ckIdx, ckChunks,
                   ckCalls, chunkOthers>>

(***************************************************************************)
(* SpecChunk: chunk_text on any page content of up to MaxText characters,  *)
(* with any chunk_size up to MaxChunkSize and 0 <= overlap < chunk_size,   *)
(* called MaxCalls times.                                                  *)
(***************************************************************************)
Contents == UNION {[1..n -> Chars] : n \in 0..MaxText}

InitChunkSpec ==
    /\ InitCore
    /\ InitSearch
    /\ InitAux("chunk")
    /\ chunkPc = "call"
    /\ ckPage \in [title : {"T"}, content : Contents]
    /\ chunk_size \in 1..MaxChunkSize
    /\ overlap \in 0..(chunk_size - 1)
    /\ ckParagraphs = <<>>
    /\ ckCurrent = <<>>
    /\ ckIdx = 0
    /\ ckChunks = <<>>
    /\ ckCalls = 0
    /\ ckFirst = <<>>

NextChunk ==
    \/ ChunkCall
    \/ ChunkParagraph
    \/ ChunkReturn
    \/ ChunkAgain

SpecChunk == InitChunkSpec /\ [][NextChunk]_vars

\* The chunks a call has returned.
Returns == {ckChunks[i] : i \in 1..Len(ckChunks)}

(***************************************************************************)
(* C22: with 0 <= overlap < chunk_size, no chunk that chunk_text returns   *)
(* has a char_count above chunk_size.                                      *)
(***************************************************************************)
C22_ChunkSizeLimit ==
    chunkPc = "returned" => \A c \in Returns : c.char_count <= chunk_size

(***************************************************************************)
(* C23: the chunks chunk_text returns have chunk_index 0, 1, 2, ... in     *)
(* list order, char_count the length of text, a text that is not empty and *)
(* has no blank at either end, and the page's title as page_title; the     *)
(* buffer left after the last paragraph is the last chunk.                 *)
(***************************************************************************)
C23_ChunkFields ==
    chunkPc = "returned" =>
        /\ \A i \in 1..Len(ckChunks) :
              /\ ckChunks[i].chunk_index = i - 1
              /\ ckChunks[i].char_count = Len(ckChunks[i].text)
              /\ ckChunks[i].text # <<>>
              /\ ~IsSpace(ckChunks[i].text[1])
              /\ ~IsSpace(ckChunks[i].text[Len(ckChunks[i].text)])
              /\ ckChunks[i].page_title = ckPage.title
        /\ (ckPage.content # <<>> /\ ckCurrent # <<>>) =>
              (ckChunks # <<>> /\ ckChunks[Len(ckChunks)].text = ckCurrent)

\* A page that begins with a blank gave two chunks or more, the last of them
\* the buffer.
C23_Witness ==
    /\ chunkPc = "returned"
    /\ Len(ckChunks) >= 2
    /\ IsSpace(ckPage.content[1])
    /\ ckCurrent # <<>>
    /\ ckChunks[Len(ckChunks)].text = ckCurrent

\* The content is one run of letters.
Unbroken(s) == \A i \in 1..Len(s) : s[i] = "a"

(***************************************************************************)
(* C24: a page that is one unbroken run longer than chunk_size is sliced   *)
(* at the offsets 0, s, 2s, ... with s = chunk_size - overlap, and every   *)
(* slice but the last has exactly chunk_size characters.                   *)
(***************************************************************************)
C24_FixedSlicing ==
    (/\ chunkPc = "returned"
     /\ Unbroken(ckPage.content)
     /\ Len(ckPage.content) > chunk_size)
    => \A i \in 1..Len(ckChunks) :
          /\ (i - 1) * (chunk_size - overlap) < Len(ckPage.content)
          /\ \E n \in 1..chunk_size :
                ckChunks[i].text =
                    SubSeq(ckPage.content, (i - 1) * (chunk_size - overlap) + 1,
                           (i - 1) * (chunk_size - overlap) + n)
          /\ i < Len(ckChunks) => ckChunks[i].char_count = chunk_size

QUOTE == "\""

BS == "\\"

\* The characters of a chunk's text that json.dumps tells apart: a letter
\* (the one an escape uses), the newline, the quote and the backslash.
JsonChars == {"n", NL, QUOTE, BS}

Digits == <<"0", "1", "2", "3", "4", "5", "6", "7", "8", "9">>

\* A mutant of EscapeChar: the newline is written as it is.
EscapeCharAs(c) ==
    IF c \in {QUOTE, BS} THEN <<BS, c>> ELSE <<c>>

\* json.dumps's escape of one character of a string.
EscapeChar(c) ==
    IF c = NL THEN <<BS, "n">>
    ELSE IF c \in {QUOTE, BS} THEN <<BS, c>>
    ELSE <<c>>

RECURSIVE Escape(_)
Escape(text) ==
    IF text = <<>> THEN <<>> ELSE EscapeChar(Head(text)) \o Escape(Tail(text))

\* json.loads's reading of an escaped string.
RECURSIVE Unescape(_)
Unescape(e) ==
    IF e = <<>> THEN <<>>
    ELSE IF Head(e) = BS /\ Len(e) >= 2
         THEN <<IF e[2] = "n" THEN NL ELSE e[2]>> \o Unescape(Tail(Tail(e)))
         ELSE <<Head(e)>> \o Unescape(Tail(e))

\* json.dumps(chunk, ensure_ascii=False)
Dumps(chunk) ==
    <<Digits[chunk.chunk_index + 1], QUOTE>> \o Escape(chunk.text) \o <<QUOTE>>

\* f.write(json.dumps(chunk, ensure_ascii=False) + '\n') for each chunk
RECURSIVE DumpLines(_)
DumpLines(cs) ==
    IF cs = <<>> THEN <<>> ELSE Dumps(Head(cs)) \o <<NL>> \o DumpLines(Tail(cs))

\* `for line in f`: the lines of the file, each up to its newline.
RECURSIVE FileLines(_, _)
FileLines(s, cur) ==
    IF s = <<>>
    THEN IF cur = <<>> THEN <<>> ELSE <<cur>>
    ELSE IF Head(s) = NL
         THEN <<cur>> \o FileLines(Tail(s), <<>>)
         ELSE FileLines(Tail(s), Append(cur, Head(s)))

\* The line is a JSON document json.loads accepts.
WellFormed(line) ==
    /\ Len(line) >= 3
    /\ \E i \in 1..Len(Digits) : Digits[i] = line[1]
    /\ line[2] = QUOTE
    /\ line[Len(line)] = QUOTE
    /\ Escape(Unescape(SubSeq(line, 3, Len(line) - 1))) = SubSeq(line, 3, Len(line) - 1)

\* json.loads(line)
Loads(line) ==
    [chunk_index |-> (CHOOSE i \in 1..Len(Digits) : Digits[i] = line[1]) - 1,
     text |-> Unescape(SubSeq(line, 3, Len(line) - 1))]

\* np.save's file for a matrix: the shape and the values row after row.
RECURSIVE Flatten(_)
Flatten(rows) == IF rows = <<>> THEN <<>> ELSE Head(rows) \o Flatten(Tail(rows))

NpSave(mat) == [shape |-> <<Len(mat.rows), mat.dim>>, data |-> Flatten(mat.rows)]

\* np.load: the values put back into shape[1] rows of shape[2] values.
NpLoad(file) ==
    [dim |-> file.shape[2],
     rows |-> [i \in 1..file.shape[1] |->
                 SubSeq(file.data, (i - 1) * file.shape[2] + 1, i * file.shape[2])]]

\* np.save(file, arr) appends '.npy' to a file name that does not end in it.
NpSaveName(name) ==
    CASE name = "embeddings.npy.tmp" -> "embeddings.npy.tmp.npy"
      [] OTHER -> name

\* tmp_npy_path = tmp_path if tmp_path.endswith('.npy') else tmp_path + '.npy'
\* if not Path(tmp_npy_path).exists(): tmp_npy_path = tmp_path + '.npy'
TmpNpyPath(tmp_path) ==
    IF storeFiles[NpSaveName(tmp_path)].kind = "absent"
    THEN "embeddings.npy.tmp.npy"
    ELSE NpSaveName(tmp_path)

storeOthers == <<lockVars, fsVars, mergeVars, histVars, writeVars, readVars, searchVars,
                 chunkVars, loopVars, retryVars, dlVars, faissVars, sliceVars, mmrVars>>

\* with open(tmp_path, 'w', encoding='utf-8') as f:
SaveChunksOpen ==
    /\ storePc = "save" /\ storeJob = "chunks"
    /\ storeFiles' = [storeFiles EXCEPT !["chunks.jsonl.tmp"] = StoreFile(<<>>)]
    /\ storePc' = "write"
    /\ UNCHANGED <<storeJob, storeIn, storeOut, storeOthers>>

\* The writes of the lines; a write that raises leaves the lines before it.
SaveChunksWrite ==
    /\ storePc = "write"
    /\ \/ /\ storeFiles' = [storeFiles EXCEPT !["chunks.jsonl.tmp"] =
                                               StoreFile(DumpLines(storeIn))]
          /\ storePc' = "replace"
       \/ /\ \E n \in 0..(Len(storeIn) - 1) :
                storeFiles' = [storeFiles EXCEPT !["chunks.jsonl.tmp"] =
                                  StoreFile(DumpLines(SubSeq(storeIn, 1, n)))]
          /\ storePc' = "raised"
    /\ UNCHANGED <<storeJob, storeIn, storeOut, storeOthers>>

\* Path(tmp_path).replace(path)
SaveChunksReplace ==
    /\ storePc = "replace" /\ storeJob = "chunks"
    /\ storeFiles' = [storeFiles EXCEPT !["chunks.jsonl"] = storeFiles["chunks.jsonl.tmp"],
                                        !["chunks.jsonl.tmp"] = NoStoreFile]
    /\ storePc' = "saved"
    /\ UNCHANGED <<storeJob, storeIn, storeOut, storeOthers>>

\* data = [json.loads(line) for line in f]; a malformed line raises.
LoadChunks ==
    /\ storePc = "saved" /\ storeJob = "chunks"
    /\ LET lines == FileLines(storeFiles["chunks.jsonl"].data, <<>>) IN
          IF \A i \in 1..Len(lines) : WellFormed(lines[i])
          THEN /\ storeOut' = [i \in 1..Len(lines) |-> Loads(lines[i])]
               /\ storePc' = "loaded"
          ELSE /\ storePc' = "load_raised"
               /\ UNCHANGED storeOut
    /\ UNCHANGED <<storeJob, storeFiles, storeIn, storeOthers>>

\* np.save(tmp_path, embeddings)
SaveEmbeddingsNpSave ==
    /\ storePc = "save" /\ storeJob = "embeddings"
    /\ \/ /\ storeFiles' = [storeFiles EXCEPT ![NpSaveName("embeddings.npy.tmp")] =
                                                  StoreFile(NpSave(storeIn))]
          /\ storePc' = "replace"
       \/ /\ storeFiles' = [storeFiles EXCEPT ![NpSaveName("embeddings.npy.tmp")] =
                                                  StoreFile(<<>>)]
          /\ storePc' = "raised"
    /\ UNCHANGED <<storeJob, storeIn, storeOut, storeOthers>>

\* Path(tmp_npy_path).replace(path)
SaveEmbeddingsReplace ==
    /\ storePc = "replace" /\ storeJob = "embeddings"
    /\ storeFiles' = [storeFiles EXCEPT
                        !["embeddings.npy"] = storeFiles[TmpNpyPath("embeddings.npy.tmp")],
                        ![TmpNpyPath("embeddings.npy.tmp")] = NoStoreFile]
    /\ storePc' = "saved"
    /\ UNCHANGED <<storeJob, storeIn, storeOut, storeOthers>>

\* data = np.load(path)
LoadEmbeddings ==
    /\ storePc = "saved" /\ storeJob = "embeddings"
    /\ storeOut' = NpLoad(storeFiles["embeddings.npy"].data)
    /\ storePc' = "loaded"
    /\ UNCHANGED <<storeJob, storeFiles, storeIn, storeOthers>>

(***************************************************************************)
(* SpecStore: save_chunks then load_chunks on any list of up to MaxChunks  *)
(* chunks with texts of up to MaxLine characters, or save_embeddings then  *)
(* load_embeddings on any matrix of up to MaxRows rows, in a directory     *)
(* that may hold an earlier index.                                         *)
(***************************************************************************)
ChunkTexts == UNION {[1..n -> JsonChars] : n \in 0..MaxLine}

ChunkLists ==
    UNION {{[i \in 1..n |-> [chunk_index |-> i - 1, text |-> t[i]]] :
               t \in [1..n -> ChunkTexts]} : n \in 0..MaxChunks}

EmbMatrices ==
    UNION {{[dim |-> d, rows |-> r] : r \in [1..n -> [1..d -> 0..1]]} :
              n \in 0..MaxRows, d \in 1..2}

InitStoreSpec ==
    /\ InitCore
    /\ InitSearch
    /\ InitAux("store")
    /\ storePc = "save"
    /\ storeJob \in {"chunks", "embeddings"}
    /\ storeIn \in IF storeJob = "chunks" THEN ChunkLists ELSE EmbMatrices
    /\ \E old \in {NoStoreFile, OldStoreFile} :
          storeFiles = [f \in StoreNames |->
                          IF f \in {"chunks.jsonl", "embeddings.npy"} THEN old
                          ELSE NoStoreFile]
    /\ storeOut = <<>>

NextStore ==
    \/ SaveChunksOpen
    \/ SaveChunksWrite
    \/ SaveChunksReplace
    \/ LoadChunks
    \/ SaveEmbeddingsNpSave
    \/ SaveEmbeddingsReplace
    \/ LoadEmbeddings

SpecStore == InitStoreSpec /\ [][NextStore]_vars

\* The temporary files of the two saves.
TmpNames == {"chunks.jsonl.tmp", "embeddings.npy.tmp", "embeddings.npy.tmp.npy"}

(***************************************************************************)
(* C25: once a save has returned, none of its temporary files exists; the  *)
(* load that follows does not raise and returns the chunk list, in order,  *)
(* or the matrix that was saved.                                           *)
(***************************************************************************)
C25_SaveLoadRoundTrip ==
    /\ storePc \in {"saved", "loaded"} => \A f \in TmpNames : storeFiles[f].kind = "absent"
    /\ storePc = "loaded" => storeOut = storeIn
    /\ storePc # "load_raised"

\* Two chunks whose texts hold a newline and a quote were saved and loaded.
C25_Witness ==
    /\ storePc = "loaded"
    /\ storeJob = "chunks"
    /\ Len(storeIn) = 2
    /\ storeIn[1].text = <<NL>>
    /\ storeIn[2].text = <<QUOTE>>
    /\ storeOut = storeIn

(***************************************************************************)
(* SpecRelease: process 1 calls release_lock, and once more after it has   *)
(* returned, on any lock file (none, an empty one, its own record or       *)
(* another process's) while no other process touches the file.            *)
(***************************************************************************)
\* storage.release_lock(lock_path), called directly
ReleaseCall(p) ==
    /\ pc[p] = "idle"
    /\ pc' = [pc EXCEPT ![p] = "rel_exists1"]
    /\ relCtx' = [relCtx EXCEPT ![p] = "call"]
    /\ UNCHANGED <<now, lockFile, timeout, lockInfo, info, fdValid, acqCall, outcome,
                   staleTaken>>
    /\ UNCHANGED <<fsVars, dataVars>>

\* The second call, after the first has returned.
ReleaseAgain(p) ==
    /\ pc[p] = "rel_done"
    /\ relCtx[p] = "call"
    /\ pc' = [pc EXCEPT ![p] = "rel_exists1"]
    /\ relCtx' = [relCtx EXCEPT ![p] = "call2"]
    /\ UNCHANGED <<now, lockFile, timeout, lockInfo, info, fdValid, acqCall, outcome,
                   staleTaken>>
    /\ UNCHANGED <<fsVars, dataVars>>

InitRelease ==
    /\ now \in 0..MaxTime
    /\ timeout = DefaultTimeout
    /\ lockFile \in {NoFile, EmptyFile}
                      \cup {LockRecord(q, t) : q \in {1, Foreign}, t \in 0..MaxTime}
    /\ pc = [p \in Procs |-> "idle"]
    /\ acqCall = [p \in Procs |-> [lock0 |-> lockFile, callTime |-> now, cmpTime |-> now]]
    /\ InitProcs

NextRelease ==
    \/ Tick
    \/ ReleaseCall(1)
    \/ ReleaseAgain(1)
    \/ ReleaseLock(1)

SpecRelease == InitRelease /\ [][NextRelease]_vars

(***************************************************************************)
(* C26: a call of release_lock that no other process interferes with       *)
(* raises no error and returns with the lock file absent, whoever wrote    *)
(* the record, whether or not there was one, and as a second call in a     *)
(* row.                                                                    *)
(***************************************************************************)
C26_ReleaseIdempotent ==
    /\ pc[1] # "rel_raised"
    /\ pc[1] = "rel_done" => lockFile = NoFile

\* The second of two calls has returned; the first had found the record of
\* another process.
C26_Witness ==
    /\ pc[1] = "rel_done"
    /\ relCtx[1] = "call2"
    /\ acqCall[1].lock0.state = "json"
    /\ acqCall[1].lock0.pid = Foreign
    /\ lockFile = NoFile

(***************************************************************************)
(* SpecChat: the interactive loop of scripts/chat.py, from the load of the *)
(* index at startup on.  Each operation the loop calls either returns or   *)
(* raises an Exception; an exception goes to the except clause around the  *)
(* place it was raised at.                                                 *)
(***************************************************************************)
loopOthers == <<lockVars, fsVars, mergeVars, histVars, writeVars, readVars, searchVars,
                chunkVars, storeVars, retryVars, dlVars, faissVars, sliceVars, mmrVars>>

FileStates == {"ok", "missing", "bad"}

IndexStates == [chunks : FileStates, embeddings : FileStates, meta : {"ok", "missing"}]

Commands == {"/quit", "/exit", "/help", "/info", "", "/update", "/refresh", "/config",
             "question"}

\* A mutant of Handler: no except clause around the query logic or the loop body.
HandlerAs(site) ==
    CASE site = "update_run"   -> [msg |-> "[Error] Could not run update", pc |-> "input"]
      [] site = "update_sync"  -> [msg |-> "[Warning] Sync after update failed", pc |-> "input"]
      [] site = "refresh_sync" -> [msg |-> "[Warning] Sync failed", pc |-> "refresh_load"]
      [] site = "refresh_load" -> [msg |-> "[Error] Failed to reload index", pc |-> "input"]
      [] site = "llm"          -> [msg |-> "[Warning] LLM generation failed", pc |-> "input"]
      [] OTHER                 -> [msg |-> "Traceback", pc |-> "crashed"]

\* The except clause that catches an Exception raised at a place of the loop:
\* what it prints and where the loop goes on.
Handler(site) ==
    CASE site = "update_run"   -> [msg |-> "[Error] Could not run update", pc |-> "input"]
      [] site = "update_sync"  -> [msg |-> "[Warning] Sync after update failed", pc |-> "input"]
      [] site = "refresh_sync" -> [msg |-> "[Warning] Sync failed", pc |-> "refresh_load"]
      [] site = "refresh_load" -> [msg |-> "[Error] Failed to reload index", pc |-> "input"]
      [] site = "llm"          -> [msg |-> "[Warning] LLM generation failed", pc |-> "input"]
      [] site = "query"        -> [msg |-> "[Error] Query failed", pc |-> "input"]
      [] OTHER                 -> [msg |-> "[Error] Unexpected error", pc |-> "input"]

\* An Exception raised at site.
Raise(site) ==
    /\ loopPc' = Handler(site).pc
    /\ loopOut' = loopOut \cup {Handler(site).msg}
    /\ loopFail' = loopFail \cup {site}

\* A step that prints msg and goes on at the prompt (continue).
Continue(msg) ==
    /\ loopPc' = "input"
    /\ loopOut' = loopOut \cup {msg}
    /\ UNCHANGED loopFail

\* missing_files; chunks = storage.load_chunks(); embeddings =
\* storage.load_embeddings(); chunks = storage.chunks; embeddings =
\* storage.embeddings
LoopLoad ==
    /\ loopPc = "startup"
    /\ LET missing == "missing" \in {loopIdx.chunks, loopIdx.embeddings, loopIdx.meta}
           okChunks == ~missing /\ loopIdx.chunks = "ok"
           okBoth == okChunks /\ loopIdx.embeddings = "ok"
       IN  /\ loopMem' = [chunks |-> IF okChunks THEN "loaded" ELSE "None",
                          embeddings |-> IF okBoth THEN "loaded" ELSE "None"]
           /\ loopOut' = IF missing THEN {"No index found"}
                         ELSE IF okBoth THEN {"Loading index"}
                         ELSE {"Loading index", "[Error] Failed to load index"}
           /\ loopFail' = IF okBoth THEN {} ELSE {"startup_load"}
    /\ loopPc' = "input"
    /\ UNCHANGED <<loopCmd, loopIdx, loopTurns, loopOthers>>

\* query = input('> '); cmd = query.strip()
LoopInput ==
    /\ loopPc = "input"
    /\ loopTurns < MaxTurns
    /\ loopTurns' = loopTurns + 1
    /\ \/ \E cmd \in Commands :
            /\ loopCmd' = cmd
            /\ loopPc' = "dispatch"
            /\ loopOut' = {}
            /\ loopFail' = {}
       \/ /\ loopCmd' = ""
          /\ loopPc' = Handler("input").pc
          /\ loopOut' = {Handler("input").msg}
          /\ loopFail' = {"input"}
    /\ UNCHANGED <<loopMem, loopIdx, loopOthers>>

\* if cmd in ['/quit', '/exit']: print("Goodbye!"); break
LoopQuit ==
    /\ loopPc = "dispatch"
    /\ loopCmd \in {"/quit", "/exit"}
    /\ loopPc' = "done"
    /\ loopOut' = loopOut \cup {"Goodbye!"}
    /\ UNCHANGED <<loopCmd, loopFail, loopMem, loopIdx, loopTurns, loopOthers>>

\* /help, /info and the empty line: print and continue
LoopPrint ==
    /\ loopPc = "dispatch"
    /\ loopCmd \in {"/help", "/info", ""}
    /\ Continue(IF loopCmd = "" THEN "Please enter a question or command." ELSE loopCmd)
    /\ UNCHANGED <<loopCmd, loopMem, loopIdx, loopTurns, loopOthers>>

\* /config: print_config; subcmd = input('config> '); int() and float() of
\* the value in their own try
LoopConfig ==
    /\ loopPc = "dispatch"
    /\ loopCmd = "/config"
    /\ \/ \E msg \in {"top_k set", "threshold set", "Invalid value", "No changes made."} :
            Continue(msg)
       \/ Raise("config")
    /\ UNCHANGED <<loopCmd, loopMem, loopIdx, loopTurns, loopOthers>>

\* if cmd == '/update': ... if cmd == '/refresh': ...
LoopCommand ==
    /\ loopPc = "dispatch"
    /\ loopCmd \in {"/update", "/refresh"}
    /\ loopPc' = IF loopCmd = "/update" THEN "update_run" ELSE "refresh_sync"
    /\ loopOut' = loopOut \cup {IF loopCmd = "/update" THEN "Triggering full index rebuild..."
                                ELSE "Refreshing local cache"}
    /\ UNCHANGED <<loopCmd, loopFail, loopMem, loopIdx, loopTurns, loopOthers>>

\* result = subprocess.run([... 'scripts/update_index.py', '--full-rebuild'])
LoopUpdateRun ==
    /\ loopPc = "update_run"
    /\ \/ /\ loopPc' = "update_sync"
          /\ loopOut' = loopOut \cup {"Index update completed."}
          /\ UNCHANGED loopFail
       \/ /\ loopPc' = "input"
          /\ loopOut' = loopOut \cup {"[Error] Update failed"}
          /\ loopFail' = loopFail \cup {"update_exit"}
       \/ Raise("update_run")
    /\ UNCHANGED <<loopCmd, loopMem, loopIdx, loopTurns, loopOthers>>

\* sync_local_cache(config) after the update and in /refresh: the cache
\* takes the files of the network drive, whatever they are.
LoopSync ==
    /\ loopPc \in {"update_sync", "refresh_sync"}
    /\ \/ /\ loopPc' = IF loopPc = "update_sync" THEN "input" ELSE "refresh_load"
          /\ loopIdx' \in IndexStates
          /\ UNCHANGED <<loopOut, loopFail>>
       \/ /\ Raise(loopPc)
          /\ UNCHANGED loopIdx
    /\ UNCHANGED <<loopCmd, loopMem, loopTurns, loopOthers>>

\* /refresh: chunks = storage.load_chunks(); embeddings =
\* storage.load_embeddings(); print("Index reloaded from disk.")
LoopRefreshLoad ==
    /\ loopPc = "refresh_load"
    /\ IF loopIdx.chunks # "ok"
       THEN Raise("refresh_load") /\ UNCHANGED loopMem
       ELSE IF loopIdx.embeddings # "ok"
       THEN Raise("refresh_load") /\ loopMem' = [loopMem EXCEPT !.chunks = "loaded"]
       ELSE /\ Continue("Index reloaded from disk.")
            /\ loopMem' = [chunks |-> "loaded", embeddings |-> "loaded"]
    /\ UNCHANGED <<loopCmd, loopIdx, loopTurns, loopOthers>>

\* if chunks is None or embeddings is None: print("No index loaded. ...")
LoopQuestion ==
    /\ loopPc = "dispatch"
    /\ loopCmd = "question"
    /\ IF "None" \in {loopMem.chunks, loopMem.embeddings}
       THEN /\ loopPc' = "input"
            /\ loopOut' = loopOut \cup {"No index loaded. Please run /update and /refresh."}
            /\ loopFail' = loopFail \cup {"no_index"}
       ELSE /\ loopPc' = "query"
            /\ UNCHANGED <<loopOut, loopFail>>
    /\ UNCHANGED <<loopCmd, loopMem, loopIdx, loopTurns, loopOthers>>

\* The query logic: embed, scores, results, llm.generate, the answer.
LoopQuery ==
    /\ loopPc = "query"
    /\ \/ Continue("No relevant results found.")
       \/ Continue("Antwort:")
       \/ /\ loopPc' = Handler("llm").pc
          /\ loopOut' = loopOut \cup {Handler("llm").msg, "Antwort:"}
          /\ loopFail' = loopFail \cup {"llm"}
       \/ Raise("query")
    /\ UNCHANGED <<loopCmd, loopMem, loopIdx, loopTurns, loopOthers>>

InitChat ==
    /\ InitCore
    /\ InitSearch
    /\ InitAux("loop")
    /\ loopPc = "startup"
    /\ loopCmd = ""
    /\ loopOut = {}
    /\ loopFail = {}
    /\ loopMem = [chunks |-> "None", embeddings |-> "None"]
    /\ loopIdx \in IndexStates
    /\ loopTurns = 0

\* The steps of the loop other than the read of a line.
LoopHandle ==
    \/ LoopLoad
    \/ LoopQuit
    \/ LoopPrint
    \/ LoopConfig
    \/ LoopCommand
    \/ LoopUpdateRun
    \/ LoopSync
    \/ LoopRefreshLoad
    \/ LoopQuestion
    \/ LoopQuery

NextChat ==
    \/ LoopInput
    \/ LoopLoad
    \/ LoopQuit
    \/ LoopPrint
    \/ LoopConfig
    \/ LoopCommand
    \/ LoopUpdateRun
    \/ LoopSync
    \/ LoopRefreshLoad
    \/ LoopQuestion
    \/ LoopQuery

\* Every operation the loop calls returns or raises: a handler that has
\* started comes to its end.
SpecChat == InitChat /\ [][NextChat]_vars /\ WF_vars(LoopHandle)

\* What the user is told of a failure.
Reports ==
    [f \in {"input", "config", "update_exit", "update_run", "update_sync", "refresh_sync",
            "refresh_load", "no_index", "startup_load", "query", "llm"} |->
        CASE f = "update_exit"  -> {"[Error] Update failed"}
          [] f = "update_run"   -> {"[Error] Could not run update"}
          [] f = "update_sync"  -> {"[Warning] Sync after update failed"}
          [] f = "refresh_sync" -> {"[Warning] Sync failed"}
          [] f = "refresh_load" -> {"[Error] Failed to reload index"}
          [] f = "no_index"     -> {"No index loaded. Please run /update and /refresh."}
          [] f = "startup_load" -> {"No index found", "[Error] Failed to load index"}
          [] f = "query"        -> {"[Error] Query failed"}
          [] f = "llm"          -> {"[Warning] LLM generation failed"}
          [] OTHER              -> {"[Error] Unexpected error"}]

LoopSafe ==
    /\ loopPc # "crashed"
    /\ loopPc = "done" => loopCmd \in {"/quit", "/exit"}
    /\ \A f \in loopFail : f \in DOMAIN Reports /\ Reports[f] \cap loopOut # {}

retryOthers == <<lockVars, fsVars, mergeVars, histVars, writeVars, readVars, searchVars,
                 chunkVars, storeVars, loopVars, dlVars, faissVars, sliceVars, mmrVars>>

\* The pages of batch b, in the order of the answer.
BatchPages(b) == [i \in 1..BatchSize |-> [batch |-> b, page |-> i]]

\* attempt = 0; while attempt < max_retries:
\* with no attempt at all, `data` is read before it was ever bound.
AttemptLoop ==
    /\ ftPc = "batch"
    /\ attempt' = 0
    /\ ftTries' = 0
    /\ ftSleeps' = <<>>
    /\ ftPc' = IF 0 < max_retries THEN "try" ELSE "raised"
    /\ UNCHANGED <<max_retries, backoff, all_results, ftBatch, ftLast, retryOthers>>

\* try: response = S.get(...); response.raise_for_status(); data =
\* response.json(); for page in pages.values(): all_results.append(...); break
Request ==
    /\ ftPc = "try"
    /\ ftTries' = ftTries + 1
    /\ \/ /\ all_results' = all_results \o BatchPages(ftBatch)
          /\ ftPc' = "data"
       \/ \E n \in 0..(BatchSize - 1) :
            /\ all_results' = all_results \o SubSeq(BatchPages(ftBatch), 1, n)
            /\ ftPc' = "except"
    /\ UNCHANGED <<max_retries, backoff, attempt, ftBatch, ftLast, ftSleeps, retryOthers>>

\* A mutant of Except: the last failure ends the retries without a raise.
ExceptAs ==
    /\ ftPc = "except"
    /\ attempt' = attempt + 1
    /\ IF attempt' < max_retries
       THEN /\ ftSleeps' = Append(ftSleeps, backoff * attempt')
            /\ ftPc' = "try"
       ELSE /\ ftPc' = "data"
            /\ UNCHANGED ftSleeps
    /\ UNCHANGED <<max_retries, backoff, all_results, ftBatch, ftLast, ftTries, retryOthers>>

\* except Exception: attempt += 1; if attempt < max_retries:
\* time.sleep(backoff * attempt) else: raise
Except ==
    /\ ftPc = "except"
    /\ attempt' = attempt + 1
    /\ IF attempt' < max_retries
       THEN /\ ftSleeps' = Append(ftSleeps, backoff * attempt')
            /\ ftPc' = "try"
       ELSE /\ ftPc' = "raised"
            /\ UNCHANGED ftSleeps
    /\ UNCHANGED <<max_retries, backoff, all_results, ftBatch, ftLast, ftTries, retryOthers>>

\* if 'continue' in data and 'gapcontinue' in data['continue']:
\* gapcontinue = ... else: break; return all_results
ContinueBatch ==
    /\ ftPc = "data"
    /\ IF ftBatch < ftLast
       THEN /\ ftBatch' = ftBatch + 1
            /\ ftPc' = "batch"
       ELSE /\ ftPc' = "returned"
            /\ UNCHANGED ftBatch
    /\ UNCHANGED <<max_retries, backoff, attempt, all_results, ftLast, ftTries, ftSleeps,
                   retryOthers>>

InitRetrySpec ==
    /\ InitCore
    /\ InitSearch
    /\ InitAux("retry")
    /\ ftPc = "batch"
    /\ max_retries \in 0..MaxRetries
    /\ backoff \in 0..MaxBackoff
    /\ attempt = 0
    /\ all_results = <<>>
    /\ ftBatch = 1
    /\ ftLast \in 1..MaxBatches
    /\ ftTries = 0
    /\ ftSleeps = <<>>

NextRetry ==
    \/ AttemptLoop
    \/ Request
    \/ Except
    \/ ContinueBatch

SpecRetry == InitRetrySpec /\ [][NextRetry]_vars

\* The pages of batch b are all in the list.
Fetched(b) ==
    \A i \in 1..BatchSize :
        \E k \in 1..Len(all_results) : all_results[k] = BatchPages(b)[i]

(***************************************************************************)
(* C28: fetch_all_pages sends at most max_retries requests for a batch,    *)
(* sleeps backoff * k between the k-th request and the next one, raises    *)
(* when the last request allowed has failed, and returns only a list that  *)
(* holds every page of every batch.                                        *)
(***************************************************************************)
C28_BoundedRetries ==
    /\ ftTries <= max_retries
    /\ ftPc \in {"batch", "try", "except", "data", "returned", "raised"}
    /\ Len(ftSleeps) = IF ftPc = "try" \/ ftTries = 0 THEN ftTries ELSE ftTries - 1
    /\ \A k \in 1..Len(ftSleeps) : ftSleeps[k] = backoff * k
    /\ ftPc = "except" => ftTries = attempt + 1
    /\ ftPc = "raised" => ftTries = max_retries
    /\ ftPc \in {"data", "returned"} => \A b \in 1..ftBatch : Fetched(b)
    /\ ftPc = "returned" => ftBatch = ftLast

\* The second batch was fetched at the last request allowed, after two
\* failures and two sleeps, and the call has returned.
C28_Witness ==
    /\ ftPc = "returned"
    /\ ftBatch = 2
    /\ max_retries = 3
    /\ ftTries = 3
    /\ backoff = 2
    /\ ftSleeps = <<2, 4>>

(***************************************************************************)
(* SpecDownload: one call of download.ensure_model.  Files are byte        *)
(* sequences; the digest of a file is a function of its bytes that maps    *)
(* several files to one value.  The request, the open, the stream and the  *)
(* move can each raise.                                                    *)
(***************************************************************************)
dlOthers == <<lockVars, fsVars, mergeVars, histVars, writeVars, readVars, searchVars,
              chunkVars, storeVars, loopVars, retryVars, faissVars, sliceVars, mmrVars>>

Bytes == {0, 1}

ModelData == UNION {[1..n -> Bytes] : n \in 0..MaxBytes}

ModelFile(data) == [exists |-> TRUE, data |-> data]

RECURSIVE Sha256OfFile(_)
\* _sha256_of_file(path): a digest of the bytes, in 0..4
Sha256OfFile(data) ==
    IF data = <<>> THEN 0
    ELSE (2 * Sha256OfFile(SubSeq(data, 1, Len(data) - 1)) + data[Len(data)] + 1) % 5

Digests == {Sha256OfFile(d) : d \in ModelData}

\* if dest.exists(): if sha256: if _sha256_of_file(dest) == sha256: return
\* str(dest) else: dest.unlink() else: return str(dest)
EnsureExisting ==
    /\ dlPc = "call"
    /\ IF dest.exists
       THEN IF sha256 # NoSha /\ Sha256OfFile(dest.data) # sha256
            THEN dest' = NoModel /\ dlPc' = "get"
            ELSE dlPc' = "returned" /\ UNCHANGED dest
       ELSE dlPc' = "get" /\ UNCHANGED dest
    /\ UNCHANGED <<dlTmp, sha256, dlServed, dlGets, dlDest0, dlOthers>>

\* with requests.get(url, stream=True, timeout=30) as r: r.raise_for_status()
EnsureGet ==
    /\ dlPc = "get"
    /\ dlGets' = dlGets + 1
    /\ dlPc' \in {"open", "except"}
    /\ UNCHANGED <<dest, dlTmp, sha256, dlServed, dlDest0, dlOthers>>

\* with open(tmp_path, 'wb') as f:
EnsureOpen ==
    /\ dlPc = "open"
    /\ \/ dlTmp' = ModelFile(<<>>) /\ dlPc' = "write"
       \/ dlPc' = "except" /\ UNCHANGED dlTmp
    /\ UNCHANGED <<dest, sha256, dlServed, dlGets, dlDest0, dlOthers>>

\* for chunk in r.iter_content(chunk_size=8192): if chunk: f.write(chunk)
EnsureWrite ==
    /\ dlPc = "write"
    /\ \/ /\ Len(dlTmp.data) < Len(dlServed)
          /\ dlTmp' = ModelFile(Append(dlTmp.data, dlServed[Len(dlTmp.data) + 1]))
          /\ UNCHANGED dlPc
       \/ /\ Len(dlTmp.data) = Len(dlServed)
          /\ dlPc' = "verify"
          /\ UNCHANGED dlTmp
       \/ /\ dlPc' = "except"
          /\ UNCHANGED dlTmp
    /\ UNCHANGED <<dest, sha256, dlServed, dlGets, dlDest0, dlOthers>>

\* A mutant of EnsureVerify: the downloaded file is moved unverified.
EnsureVerifyAs ==
    /\ dlPc = "verify"
    /\ dlPc' = "move"
    /\ UNCHANGED <<dest, dlTmp, sha256, dlServed, dlGets, dlDest0, dlOthers>>

\* if sha256: if _sha256_of_file(tmp_path) != sha256:
\* tmp_path.unlink(missing_ok=True); raise DownloadError(...)
EnsureVerify ==
    /\ dlPc = "verify"
    /\ IF sha256 # NoSha /\ Sha256OfFile(dlTmp.data) # sha256
       THEN dlTmp' = NoModel /\ dlPc' = "except"
       ELSE dlPc' = "move" /\ UNCHANGED dlTmp
    /\ UNCHANGED <<dest, sha256, dlServed, dlGets, dlDest0, dlOthers>>

\* shutil.move(str(tmp_path), str(dest)); return str(dest)
EnsureMove ==
    /\ dlPc = "move"
    /\ \/ /\ dest' = dlTmp
          /\ dlTmp' = NoModel
          /\ dlPc' = "returned"
       \/ /\ dlPc' = "except"
          /\ UNCHANGED <<dest, dlTmp>>
    /\ UNCHANGED <<sha256, dlServed, dlGets, dlDest0, dlOthers>>

\* except Exception as e: tmp_path.unlink(missing_ok=True); raise
\* DownloadError(str(e))
EnsureExcept ==
    /\ dlPc = "except"
    /\ dlTmp' = NoModel
    /\ dlPc' = "raised"
    /\ UNCHANGED <<dest, sha256, dlServed, dlGets, dlDest0, dlOthers>>

InitDownload ==
    /\ InitCore
    /\ InitSearch
    /\ InitAux("download")
    /\ dlPc = "call"
    /\ dest \in {NoModel} \cup {ModelFile(d) : d \in ModelData}
    /\ dlTmp \in {NoModel} \cup {ModelFile(d) : d \in ModelData}
    /\ sha256 \in Digests \cup {NoSha}
    /\ dlServed \in ModelData
    /\ dlGets = 0
    /\ dlDest0 = dest

NextDownload ==
    \/ EnsureExisting
    \/ EnsureGet
    \/ EnsureOpen
    \/ EnsureWrite
    \/ EnsureVerify
    \/ EnsureMove
    \/ EnsureExcept

SpecDownload == InitDownload /\ [][NextDownload]_vars

\* The file f, if there is one, has the checksum asked for.
Verified(f) == f.exists => Sha256OfFile(f.data) = sha256

(***************************************************************************)
(* C30: with a sha256 given, ensure_model returns only with a file of that *)
(* checksum at dest; when it raises DownloadError, dest and tmp_path hold  *)
(* no file of another checksum; and when dest held a file of that checksum *)
(* at the call, it returns with that file in place and no request made.    *)
(***************************************************************************)
C30_ChecksumVerified ==
    sha256 # NoSha =>
        /\ dlPc = "returned" => dest.exists /\ Sha256OfFile(dest.data) = sha256
        /\ dlPc = "raised" => Verified(dest) /\ Verified(dlTmp)
        /\ dlDest0.exists /\ Sha256OfFile(dlDest0.data) = sha256 =>
              /\ dlPc \in {"call", "returned"}
              /\ dest = dlDest0
              /\ dlGets = 0

\* A file of another checksum was at dest; the download replaced it by the
\* served file, which has the checksum asked for.
C30_Witness ==
    /\ dlPc = "returned"
    /\ sha256 # NoSha
    /\ dlDest0.exists
    /\ Sha256OfFile(dlDest0.data) # sha256
    /\ dlGets = 1
    /\ dest = ModelFile(dlServed)
    /\ Len(dlServed) = MaxBytes

(***************************************************************************)
(* SpecRebuild: the builds of SpecMerge, and the swap whose removal of     *)
(* current/ breaks off with nothing restored (SpecBuild reaches it: the    *)
(* rmtree fails and the rollback finds no archive to copy or fails too).   *)
(***************************************************************************)
\* shutil.rmtree(current_path) breaks off: the files not yet removed stay in
\* current/, and the rollback restores nothing.
RemoveBrokeOff ==
    /\ stage = "written"
    /\ currentIndex.present # {}
    /\ \E n \in 1..(Len(FileOrder) - 1) :
          currentIndex' = Partial(currentIndex, LastFiles(n))
    /\ Return
    /\ UNCHANGED <<stagingIndex, lockVars, fsVars, ioVars, histVars>>

NextRebuild ==
    \/ FetchPages
    \/ LoadPrevState
    \/ DetectChanges
    \/ MergeChunks
    \/ EmbedChunks
    \/ SaveStaging
    \/ PromoteStaging
    \/ RemoveBrokeOff

SpecRebuild == InitMerge /\ [][NextRebuild]_vars

\* The chunks of the list cs, as a set.
ChunkSet(cs) == {cs[i] : i \in 1..Len(cs)}

(***************************************************************************)
(* C31: the chunk list an incremental build has staged for publication     *)
(* holds the chunks a full rebuild over the same fetched pages would       *)
(* stage, each once: the chunks of the current revision of every fetched   *)
(* page and no other, whatever the earlier builds left in current/.        *)
(***************************************************************************)
C31_IncrementalEqualsFull ==
    (stage = "written" /\ ~full_rebuild) =>
        /\ ChunkSet(stagingIndex.chunks) = ChunkSet(ChunkPages(pages))
        /\ Len(stagingIndex.chunks) = Len(ChunkPages(pages))


(***************************************************************************)
(* C32: a build process unlinks the lock file only when the file holds the *)
(* record that process wrote: never the record, or the file being written, *)
(* of another process.                                                     *)
(***************************************************************************)
C32_ReleaseOnlyOwnRecord ==
    [][\A p \in Procs :
          (RelUnlink(p) /\ Exists(lockFile)) => (IsRecord(lockFile) /\ lockFile.pid = p)]_vars


(***************************************************************************)
(* C33: when a build has returned after a swap that raised nothing,        *)
(* current/ holds the four artifacts this build wrote to staging/ and no   *)
(* other; and if current/ existed before the build, the newest entry of    *)
(* archive/ (the pruning done) is a copy of what current/ was.             *)
(***************************************************************************)
C33_SwapPublishesStaging ==
    (pc[1] = "returned" /\ outcome[1] = "ok") =>
        /\ live = [exists |-> TRUE, files |-> [f \in Files |-> myRun[1]]]
        /\ preLive[1].exists =>
              /\ ArchiveNames(archive) # {}
              /\ archive.entries[Latest(archive)] = CopyOf(preLive[1])


(***************************************************************************)
(* C34: under --full-rebuild the build reads neither the page state nor    *)
(* the chunk list of current/: every fetched page is a changed page, no    *)
(* chunk is carried over, and the chunk list it stages is chunk_text of    *)
(* the fetched pages, one page after the other in fetch order.             *)
(***************************************************************************)
C34_FullRebuild ==
    full_rebuild =>
        /\ prev_state = EmptyState
        /\ prev_chunks = <<>>
        /\ stage \in {"detected", "merged", "embedded", "written"} => changed_pages = pages
        /\ stage \in {"merged", "embedded", "written"} => all_chunks = ChunkPages(pages)
        /\ stage = "written" => stagingIndex.chunks = ChunkPages(pages)

\* A full rebuild has staged its index while current/ holds chunks of a page
\* that is still at the revision recorded there and was fetched again.
C34_Witness ==
    /\ full_rebuild
    /\ stage = "written"
    /\ Len(pages) = NumTitles
    /\ stagingIndex.chunks # <<>>
    /\ \E i \in 1..Len(pages) :
          /\ pages[i].title \in DOMAIN currentIndex.wiki_state.pages
          /\ currentIndex.wiki_state.pages[pages[i].title].revid = pages[i].revid
          /\ \E j \in 1..Len(currentIndex.chunks) :
                currentIndex.chunks[j].page_title = pages[i].title


(***************************************************************************)
(* SpecFaiss: a Storage object on a directory whose embeddings.npy is      *)
(* replaced by new index versions (the sync of the local cache), with      *)
(* faiss importable and chromadb not.  load_embeddings sets up the FAISS   *)
(* index, search goes through it.  The chunk of row i is chunk i; an       *)
(* index keeps the rows it was built from (normalising a row leaves its    *)
(* cosine with the query as it is).                                        *)
(***************************************************************************)
faissOthers == <<lockVars, fsVars, mergeVars, histVars, writeVars, readVars, searchVars,
                 chunkVars, storeVars, loopVars, retryVars, dlVars, sliceVars, mmrVars>>

IndexMatrices == UNION {[1..n -> Vectors] : n \in 0..MaxIndexRows}

\* The score FAISS pads its answer with when the index has fewer than top_k
\* rows (the id is -1 there).
NegInf == -1

RowScores(q, rows) == [i \in 1..Len(rows) |-> Score(q, rows[i])]

\* The row numbers by descending score, in each order the sort can give
\* rows of equal score.
Orders(q, rows) == {Reversed(p) : p \in ArgSort(RowScores(q, rows))}

\* FaissVectorStore.search(query_emb, top_k): the first top_k rows of the
\* index by inner product, padded with id -1.
IndexSearch(rows, q, k, ord) ==
    [i \in 1..k |-> IF i <= Len(rows)
                    THEN [id |-> ord[i], score |-> Score(q, rows[ord[i]])]
                    ELSE [id |-> -1, score |-> NegInf]]

\* for idx, score in zip(ids, scores): chunk = self.chunks[int(idx)] (a
\* negative idx counts from the end, an idx past the end is skipped);
\* if score >= threshold: results.append((chunk, float(score)))
Collect(hits, n, thr) ==
    LET ChunkOf(h) == IF h.id = -1 THEN n ELSE h.id
        Appended(h) == n > 0 /\ ChunkOf(h) <= n /\ h.score >= thr
        kept == SelectSeq(hits, Appended)
    IN  [i \in 1..Len(kept) |-> [chunk |-> ChunkOf(kept[i]), score |-> kept[i].score]]

\* results[:top_k]
Truncate(s, k) == SubSeq(s, 1, IF Len(s) < k THEN Len(s) ELSE k)

\* retriever.search_chunks over the rows in the order ord: the rows of score
\* at least threshold that have a chunk, until top_k are found (the first
\* top_k of them).
Scan(ord, sc, n, k, thr) ==
    LET Passes(i) == sc[i] >= thr /\ i <= n
        kept == SelectSeq(ord, Passes)
    IN  [i \in 1..(IF Len(kept) < k THEN Len(kept) ELSE k) |->
            [chunk |-> kept[i], score |-> sc[kept[i]]]]

\* search_chunks(query_emb, self.embeddings, self.chunks, top_k, threshold),
\* for each order of the rows of equal score.
BruteForce(q, embs, k, thr) ==
    IF Len(embs) = 0
    THEN {<<>>}
    ELSE {Scan(ord, RowScores(q, embs), Len(embs), k, thr) : ord \in Orders(q, embs)}

\* The sync of the cache puts another index version into the directory (a
\* search leaves the directory and the Storage object as they are, so the
\* versions are installed between a load and the searches after it).
InstallVersion ==
    /\ fxPc = "loaded"
    /\ fxLoads < MaxLoads
    /\ embFile' \in IndexMatrices
    /\ fxPc' = "ready"
    /\ UNCHANGED <<faissFile, stEmbeddings, stIndex, fxQuery, fxTopK, fxThreshold,
                   fxResults, fxLoads, faissOthers>>

\* load_embeddings: data = np.load(path); self.embeddings = data;
\* self._vectorstore = FaissVectorStore(self.base_path); load(), and when
\* that raises build_index(self.embeddings) and save(), whose failure is
\* ignored; build_index raises on an empty matrix.
LoadWithIndex ==
    /\ fxPc = "ready"
    /\ fxLoads' = fxLoads + 1
    /\ stEmbeddings' = embFile
    /\ IF faissFile.exists
       THEN /\ stIndex' = [usable |-> TRUE, rows |-> faissFile.rows]
            /\ UNCHANGED faissFile
       ELSE IF Len(embFile) = 0
       THEN /\ stIndex' = NoVectorStore
            /\ UNCHANGED faissFile
       ELSE /\ stIndex' = [usable |-> TRUE, rows |-> embFile]
            /\ faissFile' \in {faissFile, [exists |-> TRUE, rows |-> embFile]}
    /\ fxPc' = "loaded"
    /\ UNCHANGED <<embFile, fxQuery, fxTopK, fxThreshold, fxResults, faissOthers>>

\* Storage.search(query_emb, top_k, threshold): through self._vectorstore
\* when there is one, else search_chunks.  A search changes nothing of the
\* object, so one search after a load stands for each of them.
StorageSearch ==
    /\ fxPc = "loaded"
    /\ \E q \in Vectors, k \in 1..(MaxIndexRows + 1), thr \in Thresholds :
          /\ fxQuery' = q
          /\ fxTopK' = k
          /\ fxThreshold' = thr
          /\ IF stIndex.usable
             THEN \E ord \in Orders(q, stIndex.rows) :
                     fxResults' = Truncate(Collect(IndexSearch(stIndex.rows, q, k, ord),
                                                   Len(stEmbeddings), thr),
                                           k)
             ELSE fxResults' \in BruteForce(q, stEmbeddings, k, thr)
    /\ fxPc' = "searched"
    /\ UNCHANGED <<embFile, faissFile, stEmbeddings, stIndex, fxLoads, faissOthers>>

InitFaissSpec ==
    /\ InitCore
    /\ InitSearch
    /\ InitAux("faiss")
    /\ fxPc = "ready"
    /\ embFile \in IndexMatrices
    /\ faissFile = NoIndexFile
    /\ stEmbeddings = <<>>
    /\ stIndex = NoVectorStore
    /\ fxQuery = <<0, 0>>
    /\ fxTopK = 1
    /\ fxThreshold = 0
    /\ fxResults = <<>>
    /\ fxLoads = 0

NextFaiss ==
    \/ InstallVersion
    \/ LoadWithIndex
    \/ StorageSearch

SpecFaiss == InitFaissSpec /\ [][NextFaiss]_vars

(***************************************************************************)
(* C35: what Storage.search returns through the FAISS index is what the    *)
(* brute-force search_chunks returns on the matrix load_embeddings has     *)
(* just loaded, for some order of the rows of equal score: the same        *)
(* chunks with the same scores in the same ranking.                        *)
(***************************************************************************)
C35_IndexMatchesBruteForce ==
    (fxPc = "searched" /\ stIndex.usable) =>
        fxResults \in BruteForce(fxQuery, stEmbeddings, fxTopK, fxThreshold)


(***************************************************************************)
(* C36: sync_local_cache copies into the cache only when the version it    *)
(* read from current/metadata.json differs from the cached one, and then   *)
(* goes through the copy of every file; with equal versions it changes     *)
(* nothing of the cache.  When sync_local_cache returns and no step of a   *)
(* build has run since it began (no swap was in progress then), the        *)
(* version in the cache's metadata.json is that of current/metadata.json   *)
(* and every file of the cache is that version's.                          *)
(***************************************************************************)
InSync == chat.step \in {"cache_info", "copy"}

LiveVersion == IF live.exists THEN live.files["metadata.json"] ELSE 0

C36_SyncCopiesOnNewVersion ==
    [][/\ cache' # cache => (chat.step = "copy" /\ net_info # cache_info)
       /\ (chat.step = "cache_info" /\ chat' # chat) =>
             ((chat'.step = "copy") <=> (net_info # cache["metadata.json"]))
       /\ (InSync /\ chat'.step \notin {"cache_info", "copy"} /\ quietSync) =>
             /\ cache'["metadata.json"] = LiveVersion
             /\ \A f \in Files : cache'[f] = LiveVersion]_vars


(***************************************************************************)
(* C37: when /refresh is over and the chat process is back at its prompt,  *)
(* whether both loads ran or one of them raised, the chunk list and the    *)
(* embedding matrix in memory are those of one index version (and so have  *)
(* one length: a version's matrix has a row per chunk).                    *)
(***************************************************************************)
C37_RefreshKeepsPair ==
    (chat.cmd = "refresh" /\ chat.step = "prompt") =>
        memory.chunks = memory.embeddings


(***************************************************************************)
(* C38: when a paragraph or a sentence does not fit behind the buffer and  *)
(* the buffer is emitted, the next buffer begins with the last overlap     *)
(* characters of the emitted chunk (all of it when it is shorter) and ends *)
(* with the new piece, the two not overlapping: the emitted chunk and the  *)
(* chunk the next buffer becomes share these characters.                   *)
(***************************************************************************)
\* The last n characters of s, all of s when it has fewer.
LastChars(s, n) == SubSeq(s, IF Len(s) > n THEN Len(s) - n + 1 ELSE 1, Len(s))

\* The piece does not fit behind the buffer: the buffer is emitted.
EmitsBuffer(st, piece, sep, size) ==
    st.current # <<>> /\ Len(st.current) + Len(sep) + Len(piece) > size

\* buf begins with the tail of the emitted chunk and ends with the piece.
Seeded(buf, emitted, piece, ov) ==
    /\ Len(buf) >= Len(LastChars(emitted, ov)) + Len(piece)
    /\ SubSeq(buf, 1, Len(LastChars(emitted, ov))) = LastChars(emitted, ov)
    /\ SubSeq(buf, Len(buf) - Len(piece) + 1, Len(buf)) = piece

\* The emission of the buffer for this piece, if there is one, seeds the
\* next buffer.
PieceSeeded(st, title, piece, sep, size, ov) ==
    EmitsBuffer(st, piece, sep, size) =>
        /\ Len(Accumulate(st, title, piece, sep, size, ov).chunks) = Len(st.chunks) + 1
        /\ Seeded(Accumulate(st, title, piece, sep, size, ov).current,
                  Accumulate(st, title, piece, sep, size, ov).chunks[Len(st.chunks) + 1].text,
                  piece, ov)

\* Each emission in the loop over the sentences seeds the next buffer.
RECURSIVE SentencesSeeded(_, _, _, _, _)
SentencesSeeded(st, title, sentences, size, ov) ==
    IF sentences = <<>>
    THEN TRUE
    ELSE IF Strip(Head(sentences)) = <<>>
         THEN SentencesSeeded(st, title, Tail(sentences), size, ov)
         ELSE /\ PieceSeeded(st, title, Strip(Head(sentences)), <<" ">>, size, ov)
              /\ SentencesSeeded(Accumulate(st, title, Strip(Head(sentences)), <<" ">>,
                                            size, ov),
                                 title, Tail(sentences), size, ov)

\* The pass over the paragraph para emits the buffer for a piece that does
\* not fit.
EmitsForPiece(st, para, size) ==
    /\ Strip(para) # <<>>
    /\ IF Len(Strip(para)) <= size
       THEN EmitsBuffer(st, Strip(para), <<NL, NL>>, size)
       ELSE ~Sliced(Strip(para), size)

C38_OverlapSeedsNextBuffer ==
    [][(chunkPc = "loop" /\ ckParagraphs # <<>> /\ ckParagraphs' = Tail(ckParagraphs)
        /\ EmitsForPiece(Locals(ckChunks, ckCurrent, ckIdx), Head(ckParagraphs), chunk_size)) =>
          IF Len(Strip(Head(ckParagraphs))) <= chunk_size
          THEN /\ Len(ckChunks') = Len(ckChunks) + 1
               /\ Seeded(ckCurrent', ckChunks'[Len(ckChunks')].text,
                         Strip(Head(ckParagraphs)), overlap)
          ELSE SentencesSeeded(Locals(ckChunks, ckCurrent, ckIdx), ckPage.title,
                               split_sentences(Strip(Head(ckParagraphs))),
                               chunk_size, overlap)]_vars


(***************************************************************************)
(* SpecSlice: chunk_text with its loops taken pass by pass (the slicing    *)
(* loop is that of lines 86-98), on any page content of up to MaxText      *)
(* characters, any chunk_size up to MaxChunkSize and any overlap from 0 to *)
(* MaxChunkSize + 1, those at and above chunk_size included.  The passes   *)
(* of one slicing loop are followed up to MaxPasses.                       *)
(***************************************************************************)
sliceOthers == <<lockVars, fsVars, mergeVars, histVars, writeVars, readVars, searchVars,
                 storeVars, loopVars, retryVars, dlVars, faissVars, mmrVars>>

\* s[a:b] for a string s and integers a, b: a negative index counts from
\* the end, an index outside the string is the nearer end.
PySlice(s, a, b) ==
    LET Norm(i) == IF i < 0
                   THEN (IF Len(s) + i < 0 THEN 0 ELSE Len(s) + i)
                   ELSE (IF i > Len(s) THEN Len(s) ELSE i)
    IN  SubSeq(s, Norm(a) + 1, Norm(b))

\* The paragraph at the head of the list goes to the slicing loop.
HeadSliced ==
    /\ Strip(Head(ckParagraphs)) # <<>>
    /\ Sliced(Strip(Head(ckParagraphs)), chunk_size)

\* for para in paragraphs: the pass for a paragraph that is blank (lines
\* 64-66) or fits into chunk_size (lines 69-81).
ChunkPiece ==
    /\ chunkPc = "loop"
    /\ ckParagraphs # <<>>
    /\ Len(Strip(Head(ckParagraphs))) <= chunk_size
    /\ \E st \in {IF Strip(Head(ckParagraphs)) = <<>>
                   THEN Locals(ckChunks, ckCurrent, ckIdx)
                   ELSE Accumulate(Locals(ckChunks, ckCurrent, ckIdx), ckPage.title,
                                   Strip(Head(ckParagraphs)), <<NL, NL>>, chunk_size,
                                   overlap)} :
          /\ ckChunks' = st.chunks
          /\ ckCurrent' = st.current
          /\ ckIdx' = st.idx
    /\ ckParagraphs' = Tail(ckParagraphs)
    /\ UNCHANGED <<chunkPc, ckPage, chunk_size, overlap, ckCalls, ckFirst, sliceVars,
                   sliceOthers>>

\* sentences = _split_sentences(para), which are not sliced: the loop over
\* the sentences begins (line 101)
SentencesBegin ==
    /\ chunkPc = "loop"
    /\ ckParagraphs # <<>>
    /\ Len(Strip(Head(ckParagraphs))) > chunk_size
    /\ ~HeadSliced
    /\ ckSentences' = split_sentences(Strip(Head(ckParagraphs)))
    /\ chunkPc' = "sentences"
    /\ UNCHANGED <<ckPage, chunk_size, overlap, ckParagraphs, ckCurrent, ckIdx, ckChunks,
                   ckCalls, ckFirst, ckStart, ckPasses, sliceOthers>>

\* for s in sentences: one pass (lines 102-113)
SentenceStep ==
    /\ chunkPc = "sentences"
    /\ ckSentences # <<>>
    /\ \E st \in {IF Strip(Head(ckSentences)) = <<>>
                   THEN Locals(ckChunks, ckCurrent, ckIdx)
                   ELSE Accumulate(Locals(ckChunks, ckCurrent, ckIdx), ckPage.title,
                                   Strip(Head(ckSentences)), <<" ">>, chunk_size,
                                   overlap)} :
          /\ ckChunks' = st.chunks
          /\ ckCurrent' = st.current
          /\ ckIdx' = st.idx
    /\ ckSentences' = Tail(ckSentences)
    /\ UNCHANGED <<chunkPc, ckPage, chunk_size, overlap, ckParagraphs, ckCalls, ckFirst,
                   ckStart, ckPasses, sliceOthers>>

\* The loop over the sentences is through: the next paragraph
SentencesEnd ==
    /\ chunkPc = "sentences"
    /\ ckSentences = <<>>
    /\ chunkPc' = "loop"
    /\ ckParagraphs' = Tail(ckParagraphs)
    /\ UNCHANGED <<ckPage, chunk_size, overlap, ckCurrent, ckIdx, ckChunks, ckCalls,
                   ckFirst, sliceVars, sliceOthers>>

\* if len(sentences) == 1 and len(sentences[0]) > chunk_size:
\*     if current: _emit(current); current = ''
\*     long_text = sentences[0]; start = 0
\* (ckSentences is the list sentences, of the one sentence)
SliceBegin ==
    /\ chunkPc = "loop"
    /\ ckParagraphs # <<>>
    /\ HeadSliced
    /\ LET st == IF ckCurrent # <<>>
                 THEN Emit(Locals(ckChunks, ckCurrent, ckIdx), ckPage.title, ckCurrent)
                 ELSE Locals(ckChunks, ckCurrent, ckIdx) IN
          /\ ckChunks' = st.chunks
          /\ ckIdx' = st.idx
    /\ ckCurrent' = <<>>
    /\ ckSentences' = <<Strip(Head(ckParagraphs))>>
    /\ ckStart' = 0
    /\ ckPasses' = 0
    /\ chunkPc' = "slice"
    /\ UNCHANGED <<ckPage, chunk_size, overlap, ckParagraphs, ckCalls, ckFirst, sliceOthers>>

\* while start < len(long_text): end = min(start + chunk_size, len(long_text));
\* _emit(long_text[start:end]); start += chunk_size - overlap
SliceStep ==
    /\ chunkPc = "slice"
    /\ ckStart < Len(ckSentences[1])
    /\ ckPasses < MaxPasses
    /\ LET long_text == ckSentences[1]
           end == IF ckStart + chunk_size < Len(long_text)
                  THEN ckStart + chunk_size ELSE Len(long_text)
           st == Emit(Locals(ckChunks, ckCurrent, ckIdx), ckPage.title,
                      PySlice(long_text, ckStart, end)) IN
          /\ ckChunks' = st.chunks
          /\ ckIdx' = st.idx
    /\ ckStart' = ckStart + chunk_size - overlap
    /\ ckPasses' = ckPasses + 1
    /\ UNCHANGED <<chunkPc, ckPage, chunk_size, overlap, ckParagraphs, ckCurrent, ckCalls,
                   ckFirst, ckSentences, sliceOthers>>

\* The while loop is left (start >= len(long_text)); continue
SliceEnd ==
    /\ chunkPc = "slice"
    /\ ckStart >= Len(ckSentences[1])
    /\ chunkPc' = "loop"
    /\ ckParagraphs' = Tail(ckParagraphs)
    /\ UNCHANGED <<ckPage, chunk_size, overlap, ckCurrent, ckIdx, ckChunks, ckCalls,
                   ckFirst, sliceVars, sliceOthers>>

InitSliceSpec ==
    /\ InitCore
    /\ InitSearch
    /\ InitAux("chunk")
    /\ chunkPc = "call"
    /\ ckPage \in [title : {"T"}, content : Contents]
    /\ chunk_size \in 1..MaxChunkSize
    /\ overlap \in 0..(MaxChunkSize + 1)
    /\ ckParagraphs = <<>>
    /\ ckCurrent = <<>>
    /\ ckIdx = 0
    /\ ckChunks = <<>>
    /\ ckCalls = 0
    /\ ckFirst = <<>>

NextSlice ==
    \/ ChunkCall
    \/ ChunkPiece
    \/ SentencesBegin
    \/ SentenceStep
    \/ SentencesEnd
    \/ SliceBegin
    \/ SliceStep
    \/ SliceEnd
    \/ ChunkReturn

\* The interpreter goes on with the call as long as it has a next step.
SpecSlice ==
    InitSliceSpec /\ [][NextSlice]_vars
        /\ WF_vars(NextSlice)

(***************************************************************************)
(* C40: every call of chunk_text returns, for every page, every            *)
(* chunk_size >= 1 and every overlap >= 0, overlap >= chunk_size included. *)
(***************************************************************************)
C40_ChunkTextTerminates ==
    <>(chunkPc = "returned")


(***************************************************************************)
(* SpecMmr: mmr_rerank(query_emb, candidate_embs, candidate_chunks, top_k, *)
(* fetch_k, lambda_param) on up to MaxCands candidates, candidate_chunks   *)
(* aligned with candidate_embs as Storage.search hands them over.  The     *)
(* vectors have norm 0 or 5, so that 25 * cosine is an integer;            *)
(* lambda_param is 0, 1/2 or 1, kept as its double mmLam.                  *)
(***************************************************************************)
mmrOthers == <<lockVars, fsVars, mergeVars, histVars, writeVars, readVars, searchVars,
               chunkVars, storeVars, loopVars, retryVars, dlVars, faissVars, sliceVars>>

\* The embeddings of the candidates.
MmrVectors == {<<5, 0>>, <<3, 4>>, <<0, 5>>}

\* The embeddings of the query, the zero vector among them.
QueryVectors == {<<0, 0>>, <<5, 0>>, <<3, 4>>}

CandidateEmbs == UNION {[1..n -> MmrVectors] : n \in 0..MaxCands}

\* np.linalg.norm(v)
NormOf(v) == CHOOSE n \in 0..5 : n * n = Dot(v, v)

\* 25 * cosine_similarity(q, embs)[i]: dot / denom, denom set to 1e-12
\* where it is 0 (the dot product is 0 there).
Cosine25(q, e) ==
    IF NormOf(q) * NormOf(e) = 0
    THEN 0
    ELSE (25 * Dot(q, e)) \div (NormOf(q) * NormOf(e))

\* pairwise = np.matmul(cand_embs_top, cand_embs_top.T): the entry of the
\* candidates g and h, their inner product.
Pairwise(embs, g, h) == Dot(embs[g], embs[h])

\* redundancy = max(pairwise[local_pos, pos] for pos in sel_local_positions)
Redundancy(embs, g, sel) ==
    CHOOSE r \in {Pairwise(embs, g, sel[i]) : i \in 1..Len(sel)} :
        \A i \in 1..Len(sel) : Pairwise(embs, g, sel[i]) <= r

\* A mutant of MmrScore: the relevance alone.
MmrScoreAs(embs, sims, lam, g, sel) == sims[g]

\* 50 * mmr_score, mmr_score = lambda_param * rel - (1 - lambda_param) *
\* redundancy with lambda_param = lam / 2 and rel = sims[g] / 25.
MmrScore(embs, sims, lam, g, sel) ==
    lam * sims[g] - (2 - lam) * 25 * Redundancy(embs, g, sel)

\* for rank_pos, global_idx in enumerate(candidate_ids): ... if best_score
\* is None or mmr_score > best_score: best_score, best_global = ...
\* best is 0 for None.
RECURSIVE BestGlobal(_, _, _, _, _, _)
BestGlobal(ids, embs, sims, lam, sel, best) ==
    IF ids = <<>>
    THEN best
    ELSE BestGlobal(Tail(ids), embs, sims, lam, sel,
                    IF \E i \in 1..Len(sel) : sel[i] = Head(ids)
                    THEN best
                    ELSE IF best = 0
                            \/ MmrScore(embs, sims, lam, Head(ids), sel)
                                 > MmrScore(embs, sims, lam, best, sel)
                         THEN Head(ids)
                         ELSE best)

\* min(top_k, len(candidate_ids))
Passes(k, ids) == IF k < Len(ids) THEN k ELSE Len(ids)

\* if candidate_embs is None or len(candidate_embs) == 0: return []
\* sims = cosine_similarity(q, embs)
\* order = np.argsort(sims)[::-1][:fetch_k]; candidate_ids = list(order)
MmrCall ==
    /\ mmPc = "call"
    /\ IF Len(mmEmbs) = 0
       THEN /\ mmPc' = "returned"
            /\ mmResults' = <<>>
            /\ UNCHANGED <<mmSims, mmCands>>
       ELSE /\ mmSims' = [i \in 1..Len(mmEmbs) |-> Cosine25(mmQuery, mmEmbs[i])]
            /\ \E p \in ArgSort(mmSims') : mmCands' = Truncate(Reversed(p), mmFetchK)
            /\ mmPc' = "loop"
            /\ UNCHANGED mmResults
    /\ UNCHANGED <<mmQuery, mmEmbs, mmTopK, mmFetchK, mmLam, mmSelected, mmPass, mmrOthers>>

\* for _ in range(min(top_k, len(candidate_ids))): one pass
MmrSelect ==
    /\ mmPc = "loop"
    /\ mmPass < Passes(mmTopK, mmCands)
    /\ mmPass' = mmPass + 1
    /\ IF mmSelected = <<>>
       THEN /\ mmSelected' = <<mmCands[1]>>
            /\ UNCHANGED mmPc
       ELSE IF BestGlobal(mmCands, mmEmbs, mmSims, mmLam, mmSelected, 0) = 0
       THEN /\ mmPc' = "results"
            /\ UNCHANGED mmSelected
       ELSE /\ mmSelected' = Append(mmSelected,
                                    BestGlobal(mmCands, mmEmbs, mmSims, mmLam, mmSelected, 0))
            /\ UNCHANGED mmPc
    /\ UNCHANGED <<mmQuery, mmEmbs, mmTopK, mmFetchK, mmLam, mmSims, mmCands, mmResults,
                   mmrOthers>>

\* The loop is through.
MmrLoopEnd ==
    /\ mmPc = "loop"
    /\ mmPass >= Passes(mmTopK, mmCands)
    /\ mmPc' = "results"
    /\ UNCHANGED <<mmQuery, mmEmbs, mmTopK, mmFetchK, mmLam, mmSims, mmCands, mmSelected,
                   mmPass, mmResults, mmrOthers>>

\* for idx, score in zip(selected, selected_scores):
\*     results.append((candidate_chunks[int(idx)], score));  return results
MmrReturn ==
    /\ mmPc = "results"
    /\ mmResults' = [i \in 1..Len(mmSelected) |->
                        [chunk |-> mmSelected[i], score |-> mmSims[mmSelected[i]]]]
    /\ mmPc' = "returned"
    /\ UNCHANGED <<mmQuery, mmEmbs, mmTopK, mmFetchK, mmLam, mmSims, mmCands, mmSelected,
                   mmPass, mmrOthers>>

InitMmrSpec ==
    /\ InitCore
    /\ InitSearch
    /\ InitAux("mmr")
    /\ mmPc = "call"
    /\ mmQuery \in QueryVectors
    /\ mmEmbs \in CandidateEmbs
    /\ mmTopK \in 0..MaxCands
    /\ mmFetchK \in 0..MaxCands
    /\ mmLam \in 0..2
    /\ mmSims = <<>>
    /\ mmCands = <<>>
    /\ mmSelected = <<>>
    /\ mmPass = 0
    /\ mmResults = <<>>

NextMmr ==
    \/ MmrCall
    \/ MmrSelect
    \/ MmrLoopEnd
    \/ MmrReturn

SpecMmr == InitMmrSpec /\ [][NextMmr]_vars

\* The candidates of the results before the i-th, in their order.
Before(i) == [j \in 1..(i - 1) |-> mmResults[j].chunk]

\* min(top_k, fetch_k, number of candidates)
Min3(a, b, c) == CHOOSE m \in {a, b, c} : m <= a /\ m <= b /\ m <= c

\* The relevance of candidate c: its cosine with the query (times 25).
Relevance(c) == Cosine25(mmQuery, mmEmbs[c])

\* 50 * (lambda * relevance - (1 - lambda) * the maximum similarity of c to
\* the candidates of sel).
Marginal(c, sel) ==
    mmLam * Relevance(c)
        - (2 - mmLam) * 25
            * (CHOOSE r \in {Dot(mmEmbs[c], mmEmbs[sel[j]]) : j \in 1..Len(sel)} :
                  \A j \in 1..Len(sel) : Dot(mmEmbs[c], mmEmbs[sel[j]]) <= r)

=============================================================================
